---- MODULE Spec2Model ----
(***************************************************************************)
(* The fungible-token ledger of ft-contract (internal.rs, ft_core.rs,      *)
(* storage.rs) as a state machine.  One action is one receipt executed by  *)
(* the host against the contract: it either commits or panics, and a panic *)
(* rolls the contract state back.  The remote ft_on_transfer call of a     *)
(* transfer-with-callback is arbitrary code of the receiver: its outcome   *)
(* is any promise result.  Between the receipts of one ft_transfer_call    *)
(* chain the host may execute any other receipt.  The model follows one    *)
(* chain at a time; what the receipts of a second chain would do to the    *)
(* ledger in between is done by the ft_transfer and ft_resolve_transfer    *)
(* receipts of the users.                                                  *)
(***************************************************************************)
EXTENDS Integers, Sequences, FiniteSets, TLC

(***************************************************************************)
(* Bounds.                                                                 *)
(***************************************************************************)
\* The largest value of the balance type (u128 in the source), scaled down.
U128_MAX == 2
\* Host parameters of the storage bounds: bytes measured at initialization
\* and the price of one byte.
BytesForLongestAccountId == 1
StorageByteCost == 1

(***************************************************************************)
(* Accounts.  FtId is the ledger contract's own account.                   *)
(***************************************************************************)
FtId == "ft"
Users == {"alice", "bob", "carol"}
OwnerId == "alice"

VARIABLES
    accounts,       \* Contract.accounts: registered account -> balance
    total_supply,   \* Contract.total_supply
    saga,           \* the ft_transfer_call chain in flight, or NoSaga
    ev,             \* the record of the receipt just executed, or Idle
    market,         \* the marketplace contract: ft_id, sales, ft_deposits
    promises        \* the cross-contract calls of the marketplace in flight

vars == <<accounts, total_supply, saga, ev, market, promises>>

(***************************************************************************)
(* Option<T> as a set with at most one element.                            *)
(***************************************************************************)
None == {}
Some(v) == {v}
Unwrap(o) == CHOOSE v \in o : TRUE

Min(a, b) == IF a <= b THEN a ELSE b

RECURSIVE SumOver(_, _)
SumOver(f, S) ==
    IF S = {} THEN 0
    ELSE LET x == CHOOSE y \in S : TRUE IN f[x] + SumOver(f, S \ {x})

\* The sum of all account balances.
SumBalances(accts) == SumOver(accts, DOMAIN accts)

checked_add(a, b) == IF a + b <= U128_MAX THEN Some(a + b) ELSE None
checked_sub(a, b) == IF a >= b THEN Some(a - b) ELSE None

\* LookupMap::get
Get(accts, id) == IF id \in DOMAIN accts THEN Some(accts[id]) ELSE None
\* Option::unwrap_or
UnwrapOr(o, d) == IF o = None THEN d ELSE Unwrap(o)
\* LookupMap::insert and LookupMap::remove
Insert(accts, id, v) == [x \in (DOMAIN accts) \cup {id} |-> IF x = id THEN v ELSE accts[x]]
Remove(accts, id) == [x \in (DOMAIN accts) \ {id} |-> accts[x]]

(***************************************************************************)
(* A contract state under execution: st.ok turns FALSE at a panic and the  *)
(* rest of the call is skipped.                                            *)
(***************************************************************************)
Start(accts, supply) ==
    [accounts |-> accts, total_supply |-> supply, ok |-> TRUE, panic |-> "",
     log |-> <<>>, near_out |-> <<>>, ret |-> 0,
     storage_byte_cost |-> StorageByteCost]

\* The call runs while the host's price of a byte of storage is cost.
AtByteCost(st, cost) == [st EXCEPT !.storage_byte_cost = cost]

Panic(st, msg) == [st EXCEPT !.ok = FALSE, !.panic = msg]

Emit(st, e) == [st EXCEPT !.log = Append(@, e)]

Return(st, v) == [st EXCEPT !.ret = v]

\* Promise::new(to).transfer(amount): NEAR paid out by the receipt.
PromiseTransfer(st, to, amount) == [st EXCEPT !.near_out = Append(@, [to |-> to, amount |-> amount])]

FtTransfer(old_owner_id, new_owner_id, amount, memo) ==
    [event |-> "ft_transfer", old_owner_id |-> old_owner_id,
     new_owner_id |-> new_owner_id, amount |-> amount, memo |-> memo]

\* Variant: any attachment of one yoctoNEAR or more passes.
assert_one_yocto_or_more(st, deposit) ==
    IF ~st.ok THEN st
    ELSE IF deposit >= 1 THEN st
    ELSE Panic(st, "Requires attached deposit of exactly 1 yoctoNEAR")

assert_one_yocto(st, deposit) ==
    IF ~st.ok THEN st
    ELSE IF deposit = 1 THEN st
    ELSE Panic(st, "Requires attached deposit of exactly 1 yoctoNEAR")

(***************************************************************************)
(* internal.rs                                                             *)
(***************************************************************************)
\* storage_balance_bounds().min, which is also its max, at the price of a
\* byte the host quotes to the call.
storage_balance_bounds(st) == BytesForLongestAccountId * st.storage_byte_cost

\* The bound at the price StorageByteCost.
storage_balance_bounds_min == BytesForLongestAccountId * StorageByteCost

\* Variant: the account is removed and total_supply is left as it was.
internal_storage_unregister_keeps_supply(st, account_id, force) ==
    IF ~st.ok THEN st
    ELSE IF Get(st.accounts, account_id) # None
    THEN LET balance == Unwrap(Get(st.accounts, account_id)) IN
         IF balance = 0 \/ force
         THEN Return(
                PromiseTransfer([st EXCEPT !.accounts = Remove(@, account_id)],
                                account_id, storage_balance_bounds(st) + 1),
                Some(<<account_id, balance>>))
         ELSE Panic(st, "Can't unregister the account with the positive balance without force")
    ELSE Return(st, None)

\* Variant: force is taken as given whatever the caller passed, so an account
\* with a positive balance is removed without it.
internal_storage_unregister_ignores_force(st, account_id, force) ==
    IF ~st.ok THEN st
    ELSE IF Get(st.accounts, account_id) # None
    THEN LET balance == Unwrap(Get(st.accounts, account_id)) IN
         Return(
           PromiseTransfer(
               [st EXCEPT !.accounts = Remove(@, account_id),
                          !.total_supply = @ - balance],
               account_id, storage_balance_bounds(st) + 1),
           Some(<<account_id, balance>>))
    ELSE Return(st, None)

internal_storage_unregister(st, account_id, force) ==
    IF ~st.ok THEN st
    ELSE IF Get(st.accounts, account_id) # None
    THEN LET balance == Unwrap(Get(st.accounts, account_id)) IN
         IF balance = 0 \/ force
         THEN Return(
                PromiseTransfer(
                    [st EXCEPT !.accounts = Remove(@, account_id),
                               !.total_supply = @ - balance],
                    account_id, storage_balance_bounds(st) + 1),
                Some(<<account_id, balance>>))
         ELSE Panic(st, "Can't unregister the account with the positive balance without force")
    ELSE Return(st, None)

\* Variant: an account without a record is credited as if it held 0.
internal_deposit_unwrap_or_zero(st, account_id, amount) ==
    IF ~st.ok THEN st
    ELSE LET balance == UnwrapOr(Get(st.accounts, account_id), 0)
             new_balance == checked_add(balance, amount)
             new_supply == checked_add(st.total_supply, amount)
         IN  IF new_balance = None THEN Panic(st, "Balance overflow")
             ELSE IF new_supply = None THEN Panic(st, "Total supply overflow")
             ELSE [st EXCEPT !.accounts = Insert(@, account_id, Unwrap(new_balance)),
                             !.total_supply = Unwrap(new_supply)]

\* Variant: the balance is credited and total_supply is left as it was.
internal_deposit_balance_only(st, account_id, amount) ==
    IF ~st.ok THEN st
    ELSE IF Get(st.accounts, account_id) = None
    THEN Panic(st, "The account is not registered")
    ELSE LET new_balance == checked_add(Unwrap(Get(st.accounts, account_id)), amount)
         IN  IF new_balance = None THEN Panic(st, "Balance overflow")
             ELSE [st EXCEPT !.accounts = Insert(@, account_id, Unwrap(new_balance))]

internal_deposit(st, account_id, amount) ==
    IF ~st.ok THEN st
    ELSE IF Get(st.accounts, account_id) = None
    THEN Panic(st, "The account is not registered")
    ELSE LET balance == Unwrap(Get(st.accounts, account_id))
             new_balance == checked_add(balance, amount)
             new_supply == checked_add(st.total_supply, amount)
         IN  IF new_balance = None THEN Panic(st, "Balance overflow")
             ELSE IF new_supply = None THEN Panic(st, "Total supply overflow")
             ELSE [st EXCEPT !.accounts = Insert(@, account_id, Unwrap(new_balance)),
                             !.total_supply = Unwrap(new_supply)]

\* Variant: the balance is debited and total_supply is left as it was.
internal_withdraw_balance_only(st, account_id, amount) ==
    IF ~st.ok THEN st
    ELSE IF Get(st.accounts, account_id) = None
    THEN Panic(st, "The account is not registered")
    ELSE LET new_balance == checked_sub(Unwrap(Get(st.accounts, account_id)), amount)
         IN  IF new_balance = None THEN Panic(st, "The account doesn't have enough balance")
             ELSE [st EXCEPT !.accounts = Insert(@, account_id, Unwrap(new_balance))]

\* Variant: the subtraction saturates at 0 where the source checks it.
internal_withdraw_saturating(st, account_id, amount) ==
    IF ~st.ok THEN st
    ELSE IF Get(st.accounts, account_id) = None
    THEN Panic(st, "The account is not registered")
    ELSE LET balance == Unwrap(Get(st.accounts, account_id))
             taken == Min(balance, amount)
         IN  [st EXCEPT !.accounts = Insert(@, account_id, balance - taken),
                        !.total_supply = @ - taken]

internal_withdraw(st, account_id, amount) ==
    IF ~st.ok THEN st
    ELSE IF Get(st.accounts, account_id) = None
    THEN Panic(st, "The account is not registered")
    ELSE LET balance == Unwrap(Get(st.accounts, account_id))
             new_balance == checked_sub(balance, amount)
             new_supply == checked_sub(st.total_supply, amount)
         IN  IF new_balance = None THEN Panic(st, "The account doesn't have enough balance")
             ELSE IF new_supply = None THEN Panic(st, "Total supply overflow")
             ELSE [st EXCEPT !.accounts = Insert(@, account_id, Unwrap(new_balance)),
                             !.total_supply = Unwrap(new_supply)]

\* Variant: a receiver without a record is given one before the deposit.
internal_transfer_registers_receiver(st, sender_id, receiver_id, amount) ==
    IF ~st.ok THEN st
    ELSE IF sender_id = receiver_id
    THEN Panic(st, "Sender and receiver should be different")
    ELSE IF ~(amount > 0)
    THEN Panic(st, "The amount should be a positive number")
    ELSE LET withdrawn == internal_withdraw(st, sender_id, amount)
             known == IF withdrawn.ok /\ Get(withdrawn.accounts, receiver_id) = None
                      THEN [withdrawn EXCEPT !.accounts = Insert(@, receiver_id, 0)]
                      ELSE withdrawn
             moved == internal_deposit(known, receiver_id, amount)
         IN  IF moved.ok
             THEN Emit(moved, FtTransfer(sender_id, receiver_id, amount, "None"))
             ELSE moved

\* Variant: no check that the sender differs from the receiver and none that
\* the amount is positive.
internal_transfer_unchecked(st, sender_id, receiver_id, amount) ==
    IF ~st.ok THEN st
    ELSE LET moved == internal_deposit(internal_withdraw(st, sender_id, amount),
                                       receiver_id, amount)
         IN  IF moved.ok
             THEN Emit(moved, FtTransfer(sender_id, receiver_id, amount, "None"))
             ELSE moved

internal_transfer(st, sender_id, receiver_id, amount) ==
    IF ~st.ok THEN st
    ELSE IF sender_id = receiver_id
    THEN Panic(st, "Sender and receiver should be different")
    ELSE IF ~(amount > 0)
    THEN Panic(st, "The amount should be a positive number")
    ELSE LET moved == internal_deposit(internal_withdraw(st, sender_id, amount),
                                       receiver_id, amount)
         IN  IF moved.ok
             THEN Emit(moved, FtTransfer(sender_id, receiver_id, amount, "None"))
             ELSE moved

\* Some(StorageBalance) for an account with a record, None without.
internal_storage_balance_of(accts, account_id) ==
    IF account_id \in DOMAIN accts
    THEN Some([total |-> storage_balance_bounds_min, available |-> 0])
    ELSE None

\* Variant: the record is written whether or not the account has one.
internal_register_account_overwrites(st, account_id) ==
    IF ~st.ok THEN st
    ELSE [st EXCEPT !.accounts = Insert(@, account_id, 0)]

internal_register_account(st, account_id) ==
    IF ~st.ok THEN st
    ELSE IF Get(st.accounts, account_id) # None
    THEN Panic(st, "The account is already registered")
    ELSE [st EXCEPT !.accounts = Insert(@, account_id, 0)]

(***************************************************************************)
(* storage.rs                                                              *)
(***************************************************************************)
\* Variant: what is attached above the minimum is kept.
storage_deposit_keeps_excess(st, predecessor, account_id, attached) ==
    IF ~st.ok THEN st
    ELSE IF account_id \in DOMAIN st.accounts
    THEN Return(IF attached > 0 THEN PromiseTransfer(st, predecessor, attached) ELSE st,
                storage_balance_bounds(st))
    ELSE IF attached < storage_balance_bounds(st)
    THEN Panic(st, "The attached deposit is less than the minimum storage balance")
    ELSE Return(internal_register_account(st, account_id), storage_balance_bounds(st))

storage_deposit(st, predecessor, account_id, attached) ==
    IF ~st.ok THEN st
    ELSE IF account_id \in DOMAIN st.accounts
    THEN Return(IF attached > 0 THEN PromiseTransfer(st, predecessor, attached) ELSE st,
                storage_balance_bounds(st))
    ELSE LET min_balance == storage_balance_bounds(st) IN
         IF attached < min_balance
         THEN Panic(st, "The attached deposit is less than the minimum storage balance")
         ELSE LET registered == internal_register_account(st, account_id)
                  refund == attached - min_balance
              IN  Return(IF registered.ok /\ refund > 0
                         THEN PromiseTransfer(registered, predecessor, refund)
                         ELSE registered,
                         storage_balance_bounds(st))

storage_unregister(st, predecessor, force, deposit) ==
    LET done == internal_storage_unregister(assert_one_yocto(st, deposit), predecessor, force)
    IN  IF done.ok THEN Return(done, done.ret # None) ELSE done

(***************************************************************************)
(* ft_core.rs                                                              *)
(***************************************************************************)
ft_transfer(st, predecessor, receiver_id, amount, deposit) ==
    internal_transfer(assert_one_yocto(st, deposit), predecessor, receiver_id, amount)

\* Variant: the sender is debited at once and the receiver, which must be
\* registered, is credited nothing before it is notified.
ft_transfer_call_credits_later(st, predecessor, receiver_id, amount, deposit) ==
    internal_deposit(internal_withdraw(assert_one_yocto(st, deposit), predecessor, amount),
                     receiver_id, 0)

\* The state change of ft_transfer_call; the two promises it creates are
\* the saga the action FtTransferCall appends.
ft_transfer_call(st, predecessor, receiver_id, amount, deposit) ==
    internal_transfer(assert_one_yocto(st, deposit), predecessor, receiver_id, amount)

ft_balance_of(accts, account_id) == UnwrapOr(Get(accts, account_id), 0)

(***************************************************************************)
(* Promise results.  A successful result carries the bytes the callee      *)
(* returned: the JSON string of a number, or anything else.                *)
(***************************************************************************)
NoValue == [kind |-> "none", n |-> 0]
ReturnValues ==
    {[kind |-> "string", n |-> k] : k \in 0..U128_MAX} \cup {[kind |-> "other", n |-> 0]}
Failed == [tag |-> "Failed", value |-> NoValue]
NotReady == [tag |-> "NotReady", value |-> NoValue]
\* No promise result at index 0: the method was called directly.
NoResult == [tag |-> "NoResult", value |-> NoValue]
Successful(v) == [tag |-> "Successful", value |-> v]
Outcomes == {Failed} \cup {Successful(v) : v \in ReturnValues}

\* serde_json::from_slice::<U128>: a JSON string holding a decimal u128.
from_slice_U128(value) ==
    IF value.kind = "string" /\ value.n <= U128_MAX THEN Some(value.n) ELSE None

\* Variant: a failed or unparsable result counts as nothing unused.
unused_amount_nothing_on_failure(result, amount) ==
    IF result.tag = "Successful" /\ from_slice_U128(result.value) # None
    THEN Min(amount, Unwrap(from_slice_U128(result.value)))
    ELSE 0

\* Variant: the reported value is taken as it is.
unused_amount_as_reported(result, amount) ==
    IF result.tag = "Successful"
    THEN IF from_slice_U128(result.value) # None
         THEN Unwrap(from_slice_U128(result.value))
         ELSE amount
    ELSE amount

\* The match on env::promise_result(0) of ft_resolve_transfer.
unused_amount(result, amount) ==
    IF result.tag = "Successful"
    THEN IF from_slice_U128(result.value) # None
         THEN Min(amount, Unwrap(from_slice_U128(result.value)))
         ELSE amount
    ELSE amount

\* Variant: the refund is the unused amount, whatever the receiver holds.
refund_amount_unclamped(receiver_balance, unused) == unused

\* Variant: the refund is the receiver's whole balance.
refund_amount_whole_balance(receiver_balance, unused) == receiver_balance

\* let refund_amount = std::cmp::min(receiver_balance, unused_amount)
refund_amount(receiver_balance, unused) == Min(receiver_balance, unused)

\* Variant: the refund itself is returned.
used_amount_is_refund(amount, refund) == Some(refund)

\* let used_amount = amount.checked_sub(refund_amount)
used_amount(amount, refund) == checked_sub(amount, refund)

ft_resolve_transfer(st, sender_id, receiver_id, amount, result) ==
    IF ~st.ok THEN st
    ELSE IF result.tag = "NoResult" THEN Panic(st, "InvalidPromiseResultIndex")
    ELSE IF result.tag = "NotReady" THEN Panic(st, "abort")
    ELSE
    LET unused == unused_amount(result, amount)
        receiver_balance == UnwrapOr(Get(st.accounts, receiver_id), 0)
    IN  IF unused > 0 /\ receiver_balance > 0
        THEN LET refund == refund_amount(receiver_balance, unused)
                 new_receiver_balance == checked_sub(receiver_balance, refund)
             IN  IF new_receiver_balance = None
                 THEN Panic(st, "The receiver account doesn't have enough balance")
                 ELSE LET debited == [st EXCEPT !.accounts =
                                         Insert(@, receiver_id, Unwrap(new_receiver_balance))]
                      IN  IF Get(debited.accounts, sender_id) = None
                          THEN Panic(st, "called Option::unwrap() on a None value")
                          ELSE LET sender_balance == Unwrap(Get(debited.accounts, sender_id))
                                   new_sender_balance == checked_add(sender_balance, refund)
                               IN  IF new_sender_balance = None
                                   THEN Panic(st, "Sender balance overflow")
                                   ELSE IF used_amount(amount, refund) = None
                                   THEN Panic(st, "Total supply overflow")
                                   ELSE Return(
                                          Emit([debited EXCEPT !.accounts =
                                                  Insert(@, sender_id, Unwrap(new_sender_balance))],
                                               FtTransfer(receiver_id, sender_id, refund, "refund")),
                                          Unwrap(used_amount(amount, refund)))
        ELSE Return(st, amount)

(***************************************************************************)
(* Initialization: Contract::new of 4.storage/src/lib.rs, with the         *)
(* internal_deposit of that crate (4.storage/src/internal.rs), which       *)
(* leaves total_supply to the constructor.                                 *)
(***************************************************************************)
FtMint(owner_id, amount, memo) ==
    [event |-> "ft_mint", old_owner_id |-> "", new_owner_id |-> owner_id,
     amount |-> amount, memo |-> memo]

EmptyAccounts == [x \in {} |-> 0]

internal_deposit_storage(st, account_id, amount) ==
    IF ~st.ok THEN st
    ELSE IF Get(st.accounts, account_id) = None
    THEN Panic(st, "The account is not registered")
    ELSE LET new_balance == checked_add(Unwrap(Get(st.accounts, account_id)), amount)
         IN  IF new_balance = None THEN Panic(st, "Balance overflow")
             ELSE [st EXCEPT !.accounts = Insert(@, account_id, Unwrap(new_balance))]

\* AccountId::new_unchecked("a".repeat(64))
TmpAccountId == "aaaaaaaaaaaaaaaaaaaaaaaaaaaaaaaaaaaaaaaaaaaaaaaaaaaaaaaaaaaaaaaa"

\* The storage the longest account id takes is measured on a record that is
\* inserted and removed again; the measure is BytesForLongestAccountId.
measure_bytes_for_longest_account_id(st) ==
    IF ~st.ok THEN st
    ELSE [st EXCEPT !.accounts = Remove(Insert(@, TmpAccountId, 0), TmpAccountId)]

\* Variant: the owner is credited with a deposit that adds the amount to
\* total_supply, which the constructor has set already.
new_deposit_adds_supply(owner_id, supply) ==
    LET this == Start(EmptyAccounts, supply)
        measured == measure_bytes_for_longest_account_id(this)
        minted == internal_deposit(internal_register_account(measured, owner_id),
                                   owner_id, supply)
    IN  Emit(minted, FtMint(owner_id, supply, "Initial token supply is minted"))

new(owner_id, supply) ==
    LET this == Start(EmptyAccounts, supply)
        measured == measure_bytes_for_longest_account_id(this)
        minted == internal_deposit_storage(internal_register_account(measured, owner_id),
                                           owner_id, supply)
    IN  Emit(minted, FtMint(owner_id, supply, "Initial token supply is minted"))

(***************************************************************************)
(* market-contract: sale.rs and ft_balances.rs.  The contract holds the    *)
(* sales and the ft_deposits (escrow balances) and knows the ledger it     *)
(* accepts tokens from (ft_id).  Its lib.rs, internal.rs and the listing   *)
(* callback are not among the sources: the contract state at construction, *)
(* internal_remove_sale and list follow the design document.               *)
(***************************************************************************)
MarketId == "market"
NftId == "nft"
TokenIds == {"token"}
ApprovalIds == {0}
DELIMETER == "."

\* format!("{}{}{}", contract_id, DELIMETER, token_id)
ContractAndTokenId(contract_id, token_id) == contract_id \o DELIMETER \o token_id

Sale(owner_id, approval_id, nft_contract_id, token_id, sale_conditions) ==
    [owner_id |-> owner_id, approval_id |-> approval_id,
     nft_contract_id |-> nft_contract_id, token_id |-> token_id,
     sale_conditions |-> sale_conditions]

EmptyMap == [x \in {} |-> 0]

\* The marketplace at construction: no sale, no deposit.
MarketNew(ft_id) == [ft_id |-> ft_id, sales |-> EmptyMap, ft_deposits |-> EmptyMap]

\* The marketplace state under execution, with the promises the call creates.
MarketStart(m) ==
    [ft_id |-> m.ft_id, sales |-> m.sales, ft_deposits |-> m.ft_deposits,
     ok |-> TRUE, panic |-> "", ret |-> 0, promises |-> <<>>]

NoCallback == [method |-> "none"]

\* A cross-contract call the receipt schedules, with the callback chained
\* to it by .then(), if any.
CreatePromise(st, receiver, method, args, callback) ==
    [st EXCEPT !.promises = Append(@, [receiver |-> receiver, method |-> method,
                                       args |-> args, deposit |-> 1,
                                       callback |-> callback])]

saturating_add(a, b) == Min(a + b, U128_MAX)
saturating_sub(a, b) == IF a >= b THEN a - b ELSE 0

\* #[private]: the predecessor must be the contract itself.
private(st, predecessor, method) ==
    IF ~st.ok THEN st
    ELSE IF predecessor # MarketId THEN Panic(st, "Method " \o method \o " is private")
    ELSE st

\* Variant: the Sale Record is returned and stays in the map.
internal_remove_sale_reads_only(st, nft_contract_id, token_id) ==
    IF ~st.ok THEN st
    ELSE LET contract_and_token_id == ContractAndTokenId(nft_contract_id, token_id) IN
         IF contract_and_token_id \notin DOMAIN st.sales
         THEN Panic(st, "No sale")
         ELSE Return(st, st.sales[contract_and_token_id])

\* Removes the Sale Record of the asset and returns it.
internal_remove_sale(st, nft_contract_id, token_id) ==
    IF ~st.ok THEN st
    ELSE LET contract_and_token_id == ContractAndTokenId(nft_contract_id, token_id) IN
         IF contract_and_token_id \notin DOMAIN st.sales
         THEN Panic(st, "No sale")
         ELSE Return([st EXCEPT !.sales = Remove(@, contract_and_token_id)],
                     st.sales[contract_and_token_id])

\* list(owner, asset_ref, approval_token, price): the caller becomes the
\* seller of an asset that is not listed.
list(st, predecessor, nft_contract_id, token_id, approval_id, price, deposit) ==
    LET checked == assert_one_yocto(st, deposit)
        contract_and_token_id == ContractAndTokenId(nft_contract_id, token_id)
    IN  IF ~checked.ok THEN checked
        ELSE IF contract_and_token_id \in DOMAIN checked.sales
        THEN Panic(checked, "Already listed")
        ELSE [checked EXCEPT !.sales =
                 Insert(@, contract_and_token_id,
                        Sale(predecessor, approval_id, nft_contract_id, token_id, price))]

\* Variant: no check of the owner.
remove_sale_by_anyone(st, predecessor, nft_contract_id, token_id, deposit) ==
    LET removed == internal_remove_sale(assert_one_yocto(st, deposit),
                                        nft_contract_id, token_id)
    IN  IF ~removed.ok THEN removed ELSE Return(removed, 0)

remove_sale(st, predecessor, nft_contract_id, token_id, deposit) ==
    LET removed == internal_remove_sale(assert_one_yocto(st, deposit),
                                        nft_contract_id, token_id)
    IN  IF ~removed.ok THEN removed
        ELSE IF predecessor # removed.ret.owner_id
        THEN Panic(removed, "Must be sale owner")
        ELSE Return(removed, 0)

\* Variant: no check of the owner.
update_price_by_anyone(st, predecessor, nft_contract_id, token_id, price, deposit) ==
    LET checked == assert_one_yocto(st, deposit)
        contract_and_token_id == ContractAndTokenId(nft_contract_id, token_id)
    IN  IF ~checked.ok THEN checked
        ELSE IF contract_and_token_id \notin DOMAIN checked.sales
        THEN Panic(checked, "No sale")
        ELSE [checked EXCEPT !.sales[contract_and_token_id].sale_conditions = price]

update_price(st, predecessor, nft_contract_id, token_id, price, deposit) ==
    LET checked == assert_one_yocto(st, deposit)
        contract_and_token_id == ContractAndTokenId(nft_contract_id, token_id)
    IN  IF ~checked.ok THEN checked
        ELSE IF contract_and_token_id \notin DOMAIN checked.sales
        THEN Panic(checked, "No sale")
        ELSE IF predecessor # checked.sales[contract_and_token_id].owner_id
        THEN Panic(checked, "Must be sale owner")
        ELSE [checked EXCEPT !.sales[contract_and_token_id].sale_conditions = price]

\* Variant: the sale stays in the map and the callback carries the price
\* of the sale.
process_purchase_keeps_sale(st, nft_contract_id, token_id, amount, buyer_id) ==
    IF ~st.ok THEN st
    ELSE LET sale == st.sales[ContractAndTokenId(nft_contract_id, token_id)] IN
         Return(
            CreatePromise(st, nft_contract_id, "nft_transfer",
                          [receiver_id |-> buyer_id, token_id |-> token_id,
                           approval_id |-> sale.approval_id],
                          [method |-> "resolve_purchase", seller_id |-> sale.owner_id,
                           buyer_id |-> buyer_id, price |-> sale.sale_conditions]),
            0)

process_purchase(st, nft_contract_id, token_id, amount, buyer_id) ==
    LET removed == internal_remove_sale(st, nft_contract_id, token_id) IN
    IF ~removed.ok THEN removed
    ELSE LET sale == removed.ret IN
         Return(
            CreatePromise(removed, nft_contract_id, "nft_transfer",
                          [receiver_id |-> buyer_id, token_id |-> token_id,
                           approval_id |-> sale.approval_id],
                          [method |-> "resolve_purchase", seller_id |-> sale.owner_id,
                           buyer_id |-> buyer_id, price |-> amount]),
            0)

\* Variant: no check of the amount against the price.
offer_any_amount(st, predecessor, nft_contract_id, token_id, amount, deposit) ==
    LET checked == assert_one_yocto(st, deposit)
        contract_and_token_id == ContractAndTokenId(nft_contract_id, token_id)
        buyer_id == predecessor
    IN  IF ~checked.ok THEN checked
        ELSE IF contract_and_token_id \notin DOMAIN checked.sales
        THEN Panic(checked, "No sale")
        ELSE IF checked.sales[contract_and_token_id].owner_id = buyer_id
        THEN Panic(checked, "Cannot bid on your own sale.")
        ELSE IF Get(checked.ft_deposits, buyer_id) = None
        THEN Panic(checked, "called Option::unwrap() on a None value")
        ELSE LET cur_bal == Unwrap(Get(checked.ft_deposits, buyer_id)) IN
             IF ~(cur_bal >= amount)
             THEN Panic(checked, "Not enough FTs in balance to cover offer")
             ELSE process_purchase(
                    [checked EXCEPT !.ft_deposits =
                        Insert(@, buyer_id, saturating_sub(cur_bal, amount))],
                    nft_contract_id, token_id, amount, buyer_id)

\* Variant: no check of the buyer's deposit against the amount; a buyer
\* without a deposit counts as holding 0.
offer_unbacked(st, predecessor, nft_contract_id, token_id, amount, deposit) ==
    LET checked == assert_one_yocto(st, deposit)
        contract_and_token_id == ContractAndTokenId(nft_contract_id, token_id)
        buyer_id == predecessor
    IN  IF ~checked.ok THEN checked
        ELSE IF contract_and_token_id \notin DOMAIN checked.sales
        THEN Panic(checked, "No sale")
        ELSE IF checked.sales[contract_and_token_id].owner_id = buyer_id
        THEN Panic(checked, "Cannot bid on your own sale.")
        ELSE IF ~(amount >= checked.sales[contract_and_token_id].sale_conditions)
        THEN Panic(checked, "Offer amount must be greater than or eqaul to the price")
        ELSE LET cur_bal == UnwrapOr(Get(checked.ft_deposits, buyer_id), 0) IN
             process_purchase(
                [checked EXCEPT !.ft_deposits =
                    Insert(@, buyer_id, saturating_sub(cur_bal, amount))],
                nft_contract_id, token_id, amount, buyer_id)

\* Variant: the seller of a sale may offer on it.
offer_by_seller_allowed(st, predecessor, nft_contract_id, token_id, amount, deposit) ==
    LET checked == assert_one_yocto(st, deposit)
        contract_and_token_id == ContractAndTokenId(nft_contract_id, token_id)
        buyer_id == predecessor
    IN  IF ~checked.ok THEN checked
        ELSE IF contract_and_token_id \notin DOMAIN checked.sales
        THEN Panic(checked, "No sale")
        ELSE IF ~(amount >= checked.sales[contract_and_token_id].sale_conditions)
        THEN Panic(checked, "Offer amount must be greater than or eqaul to the price")
        ELSE IF Get(checked.ft_deposits, buyer_id) = None
        THEN Panic(checked, "called Option::unwrap() on a None value")
        ELSE LET cur_bal == Unwrap(Get(checked.ft_deposits, buyer_id)) IN
             IF ~(cur_bal >= amount)
             THEN Panic(checked, "Not enough FTs in balance to cover offer")
             ELSE process_purchase(
                    [checked EXCEPT !.ft_deposits =
                        Insert(@, buyer_id, saturating_sub(cur_bal, amount))],
                    nft_contract_id, token_id, amount, buyer_id)

offer(st, predecessor, nft_contract_id, token_id, amount, deposit) ==
    LET checked == assert_one_yocto(st, deposit)
        contract_and_token_id == ContractAndTokenId(nft_contract_id, token_id)
        buyer_id == predecessor
    IN  IF ~checked.ok THEN checked
        ELSE IF contract_and_token_id \notin DOMAIN checked.sales
        THEN Panic(checked, "No sale")
        ELSE IF checked.sales[contract_and_token_id].owner_id = buyer_id
        THEN Panic(checked, "Cannot bid on your own sale.")
        ELSE IF ~(amount >= checked.sales[contract_and_token_id].sale_conditions)
        THEN Panic(checked, "Offer amount must be greater than or eqaul to the price")
        ELSE IF Get(checked.ft_deposits, buyer_id) = None
        THEN Panic(checked, "called Option::unwrap() on a None value")
        ELSE LET cur_bal == Unwrap(Get(checked.ft_deposits, buyer_id)) IN
             IF ~(cur_bal >= amount)
             THEN Panic(checked, "Not enough FTs in balance to cover offer")
             ELSE process_purchase(
                    [checked EXCEPT !.ft_deposits =
                        Insert(@, buyer_id, saturating_sub(cur_bal, amount))],
                    nft_contract_id, token_id, amount, buyer_id)

\* Variant: nothing is paid out whatever the result.
transfer_amount_never(result, amount) == 0

\* Variant: the amount is paid out whatever the result.
transfer_amount_always(result, amount) == amount

\* The match on env::promise_result(0) of resolve_purchase.
transfer_amount(result, amount) ==
    IF result.tag = "Successful" THEN amount ELSE 0

resolve_purchase(st, predecessor, seller_id, buyer_id, price, result) ==
    LET checked == private(st, predecessor, "resolve_purchase") IN
    IF ~checked.ok THEN checked
    ELSE IF result.tag = "NoResult" THEN Panic(checked, "InvalidPromiseResultIndex")
    ELSE IF transfer_amount(result, price) > 0
    THEN Return(
            CreatePromise(checked, checked.ft_id, "ft_transfer",
                          [receiver_id |-> seller_id,
                           amount |-> transfer_amount(result, price)],
                          NoCallback),
            transfer_amount(result, price))
    ELSE IF Get(checked.ft_deposits, buyer_id) = None
    THEN Panic(checked, "called Option::unwrap() on a None value")
    ELSE LET cur_bal == Unwrap(Get(checked.ft_deposits, buyer_id)) IN
         Return([checked EXCEPT !.ft_deposits =
                    Insert(@, buyer_id, saturating_add(cur_bal, price))],
                0)

\* Variant: the amount is credited and reported back as unused.
ft_on_transfer_returns_amount(st, predecessor, signer_id, sender_id, amount) ==
    IF ~st.ok THEN st
    ELSE IF predecessor # st.ft_id
    THEN Panic(st, "FT contract ID does not match")
    ELSE IF predecessor = signer_id
    THEN Panic(st, "nft_on_approve should only be called via cross-contract call")
    ELSE IF sender_id # signer_id
    THEN Panic(st, "owner_id should be signer_id")
    ELSE LET cur_bal == UnwrapOr(Get(st.ft_deposits, signer_id), 0) IN
         Return([st EXCEPT !.ft_deposits =
                    Insert(@, signer_id, saturating_add(cur_bal, amount))],
                amount)

\* Variant: no check of the caller.
ft_on_transfer_from_anyone(st, predecessor, signer_id, sender_id, amount) ==
    IF ~st.ok THEN st
    ELSE IF sender_id # signer_id
    THEN Panic(st, "owner_id should be signer_id")
    ELSE LET cur_bal == UnwrapOr(Get(st.ft_deposits, signer_id), 0) IN
         Return([st EXCEPT !.ft_deposits =
                    Insert(@, signer_id, saturating_add(cur_bal, amount))],
                0)

\* The marketplace's ft_on_transfer: how buyers fund their deposits.
ft_on_transfer(st, predecessor, signer_id, sender_id, amount) ==
    IF ~st.ok THEN st
    ELSE IF predecessor # st.ft_id
    THEN Panic(st, "FT contract ID does not match")
    ELSE IF predecessor = signer_id
    THEN Panic(st, "nft_on_approve should only be called via cross-contract call")
    ELSE IF sender_id # signer_id
    THEN Panic(st, "owner_id should be signer_id")
    ELSE LET cur_bal == UnwrapOr(Get(st.ft_deposits, signer_id), 0) IN
         Return([st EXCEPT !.ft_deposits =
                    Insert(@, signer_id, saturating_add(cur_bal, amount))],
                0)

\* Variant: the deposit is not lowered.
ft_withdraw_keeps_deposit(st, predecessor, amount, deposit) ==
    LET checked == assert_one_yocto(st, deposit)
        caller == predecessor
    IN  IF ~checked.ok THEN checked
        ELSE LET cur_bal == UnwrapOr(Get(checked.ft_deposits, caller), 0) IN
             IF ~(cur_bal >= amount)
             THEN Panic(checked, "Insufficient balance")
             ELSE CreatePromise(
                    [checked EXCEPT !.ft_deposits = Insert(@, caller, cur_bal)],
                    checked.ft_id, "ft_transfer",
                    [receiver_id |-> caller, amount |-> amount],
                    [method |-> "resolve_refund", caller |-> caller, amount |-> amount])

ft_withdraw(st, predecessor, amount, deposit) ==
    LET checked == assert_one_yocto(st, deposit)
        caller == predecessor
    IN  IF ~checked.ok THEN checked
        ELSE LET cur_bal == UnwrapOr(Get(checked.ft_deposits, caller), 0) IN
             IF ~(cur_bal >= amount)
             THEN Panic(checked, "Insufficient balance")
             ELSE CreatePromise(
                    [checked EXCEPT !.ft_deposits =
                        Insert(@, caller, saturating_sub(cur_bal, amount))],
                    checked.ft_id, "ft_transfer",
                    [receiver_id |-> caller, amount |-> amount],
                    [method |-> "resolve_refund", caller |-> caller, amount |-> amount])

\* Variant: the amount is credited back whatever the result.
revert_amount_always(result, amount) == amount

\* The match on env::promise_result(0) of resolve_refund.
revert_amount(result, amount) ==
    IF result.tag = "Successful" THEN 0 ELSE amount

resolve_refund(st, predecessor, caller, amount, result) ==
    LET checked == private(st, predecessor, "resolve_refund") IN
    IF ~checked.ok THEN checked
    ELSE IF result.tag = "NoResult" THEN Panic(checked, "InvalidPromiseResultIndex")
    ELSE IF revert_amount(result, amount) > 0
    THEN LET cur_bal == UnwrapOr(Get(checked.ft_deposits, caller), 0) IN
         Return([checked EXCEPT !.ft_deposits =
                    Insert(@, caller, saturating_add(cur_bal, revert_amount(result, amount)))],
                revert_amount(result, amount))
    ELSE Return(checked, revert_amount(result, amount))

ft_deposits_of(ft_deposits, account_id) == UnwrapOr(Get(ft_deposits, account_id), 0)

(***************************************************************************)
(* ev is the record of the receipt the host has just executed: its inputs, *)
(* the contract state before it and its outcome.  The host takes the next  *)
(* receipt once the record is filed (ev = Idle).  A receipt of a user that *)
(* changes nothing, because it panics or has nothing to do, leaves no      *)
(* record.                                                                 *)
(***************************************************************************)
NoArgs ==
    [predecessor |-> "", account_id |-> "", sender_id |-> "", receiver_id |-> "",
     amount |-> 0, deposit |-> 0, force |-> FALSE, result |-> NotReady,
     sender_before |-> 0, receiver_committed |-> 0,
     signer_id |-> "", token_id |-> "", price |-> 0, seller_id |-> "",
     buyer_id |-> "", caller |-> "", memo |-> ""]

Receipt(op, args, st) ==
    [op |-> op, args |-> args @@ NoArgs,
     ok |-> st.ok, panic |-> st.panic, ret |-> st.ret, log |-> st.log,
     near_out |-> st.near_out, calls |-> <<>>,
     pre_accounts |-> accounts, pre_supply |-> total_supply, pre_market |-> market]

Idle ==
    [op |-> "idle", args |-> NoArgs, ok |-> TRUE, panic |-> "", ret |-> 0, log |-> <<>>,
     near_out |-> <<>>, calls |-> <<>>, pre_accounts |-> EmptyAccounts, pre_supply |-> 0,
     pre_market |-> MarketNew(FtId)]

Now == Start(accounts, total_supply)

\* The receipt commits: the contract state is the one the call left.
Commit(op, args, st) ==
    /\ ev.op = "idle"
    /\ st.ok
    /\ <<st.accounts, st.total_supply>> # <<accounts, total_supply>>
    /\ accounts' = st.accounts
    /\ total_supply' = st.total_supply
    /\ ev' = Receipt(op, args, st)
    /\ UNCHANGED <<market, promises>>

\* A chain in flight: the arguments its ft_resolve_transfer callback was
\* created with, and the balances of the two accounts at the commit.
NoSaga == [status |-> "none"]

Saga(sender_id, receiver_id, amount, sender_before, receiver_committed) ==
    [status |-> "in flight",
     sender_id |-> sender_id, receiver_id |-> receiver_id, amount |-> amount,
     sender_before |-> sender_before, receiver_committed |-> receiver_committed]

\* The calls of the marketplace in flight: the nft_transfer of a purchase
\* with its resolve_purchase callback, the ft_transfer that pays a seller,
\* the ft_transfer of a withdrawal with its resolve_refund callback, and the
\* result of the marketplace's ft_on_transfer on its way to the ledger.
NoPromise == [status |-> "none"]
NoPromises ==
    [purchase |-> NoPromise, payout |-> NoPromise, withdrawal |-> NoPromise,
     notified |-> NoPromise]

Init ==
    \E supply \in 0..U128_MAX :
        LET st == new(OwnerId, supply) IN
        /\ accounts = st.accounts
        /\ total_supply = st.total_supply
        /\ saga = NoSaga
        /\ ev = [op |-> "new", args |-> [amount |-> supply, account_id |-> OwnerId] @@ NoArgs,
                 ok |-> st.ok, panic |-> st.panic, ret |-> st.ret, log |-> st.log,
                 near_out |-> st.near_out,
                 pre_accounts |-> EmptyAccounts, pre_supply |-> 0,
                 pre_market |-> MarketNew(FtId)]
        /\ market = MarketNew(FtId)
        /\ promises = NoPromises

(***************************************************************************)
(* Actions: one receipt each.                                              *)
(***************************************************************************)
StorageDeposit(predecessor, account_id, attached) ==
    LET st == storage_deposit(Now, predecessor, account_id, attached) IN
    /\ Commit("storage_deposit",
              [predecessor |-> predecessor, account_id |-> account_id,
               deposit |-> attached], st)
    /\ UNCHANGED saga

StorageUnregister(predecessor, force, deposit) ==
    LET st == storage_unregister(Now, predecessor, force, deposit) IN
    /\ Commit("storage_unregister",
              [predecessor |-> predecessor, account_id |-> predecessor,
               force |-> force, deposit |-> deposit], st)
    /\ UNCHANGED saga

FtTransferAction(predecessor, receiver_id, amount, deposit) ==
    LET st == ft_transfer(Now, predecessor, receiver_id, amount, deposit) IN
    /\ Commit("ft_transfer",
              [predecessor |-> predecessor, sender_id |-> predecessor,
               receiver_id |-> receiver_id, amount |-> amount, deposit |-> deposit], st)
    /\ UNCHANGED saga

\* ft_transfer_call: the commit phase, then the ft_on_transfer promise with
\* its ft_resolve_transfer callback.
FtTransferCall(predecessor, receiver_id, amount, deposit) ==
    LET st == ft_transfer_call(Now, predecessor, receiver_id, amount, deposit) IN
    /\ saga = NoSaga
    /\ Commit("ft_transfer_call",
              [predecessor |-> predecessor, sender_id |-> predecessor,
               receiver_id |-> receiver_id, amount |-> amount, deposit |-> deposit], st)
    /\ saga' = Saga(predecessor, receiver_id, amount,
                    accounts[predecessor], st.accounts[receiver_id])

\* The host runs the callback with the outcome of the receiver's
\* ft_on_transfer, which is code of the receiver and ends in any way.  A
\* panic of the callback changes no contract state and ends the chain all
\* the same.
FtResolveTransfer(outcome) ==
    LET st == ft_resolve_transfer(Now, saga.sender_id, saga.receiver_id,
                                  saga.amount, outcome)
    IN  /\ ev.op = "idle"
        /\ saga # NoSaga
        /\ accounts' = IF st.ok THEN st.accounts ELSE accounts
        /\ total_supply' = IF st.ok THEN st.total_supply ELSE total_supply
        /\ saga' = NoSaga
        /\ ev' = Receipt("ft_resolve_transfer",
                         [predecessor |-> FtId, sender_id |-> saga.sender_id,
                          receiver_id |-> saga.receiver_id, amount |-> saga.amount,
                          result |-> outcome, sender_before |-> saga.sender_before,
                          receiver_committed |-> saga.receiver_committed], st)
        /\ UNCHANGED <<market, promises>>

\* ft_resolve_transfer is a public method without a caller check: a user may
\* call it, directly or as the callback of a promise of its own, naming
\* itself the sender, with a receiver, an amount and a result of its choice.
CallFtResolveTransfer(predecessor, receiver_id, amount, result) ==
    LET st == ft_resolve_transfer(Now, predecessor, receiver_id, amount, result) IN
    /\ Commit("ft_resolve_transfer",
              [predecessor |-> predecessor, sender_id |-> predecessor,
               receiver_id |-> receiver_id, amount |-> amount, result |-> result], st)
    /\ UNCHANGED saga

\* The record of the last receipt is filed.
HostIdle ==
    /\ ev.op # "idle"
    /\ ev' = Idle
    /\ UNCHANGED <<accounts, total_supply, saga, market, promises>>

\* Attached deposits: none, the one yoctoNEAR, more.
Deposits == {0, 1, 2}
\* Attached storage deposits: none, just below, at and above the minimum.
StorageDeposits ==
    {0, storage_balance_bounds_min, storage_balance_bounds_min + 1}
        \cup {d \in {storage_balance_bounds_min - 1} : d >= 0}
\* Prices of a byte the host may quote: the one at hand and a higher one.
ByteCosts == {StorageByteCost, StorageByteCost + 1}
\* Attachments up to one above the highest minimum.
Attachments == 0..(BytesForLongestAccountId * (StorageByteCost + 1) + 1)
Amounts == 0..U128_MAX
\* Results of a direct call of ft_resolve_transfer: none when it is called on
\* its own, a failure when it is the callback of a failing promise.  A
\* successful result reporting k moves what a failure moves for the amount
\* min(amount, k).
RogueResults == {NoResult, Failed}

Next ==
    \/ \E p \in Users, a \in Users, d \in StorageDeposits :
          StorageDeposit(p, a, d)
    \/ \E p \in Users, f \in BOOLEAN, d \in Deposits :
          StorageUnregister(p, f, d)
    \/ \E p \in Users, r \in Users, n \in Amounts, d \in Deposits :
          FtTransferAction(p, r, n, d)
    \/ \E p \in Users, r \in Users, n \in Amounts, d \in Deposits :
          FtTransferCall(p, r, n, d)
    \/ \E o \in Outcomes : FtResolveTransfer(o)
    \/ \E p \in Users, r \in Users, n \in Amounts, o \in RogueResults :
          CallFtResolveTransfer(p, r, n, o)
    \/ HostIdle

Spec == Init /\ [][Next]_vars

(***************************************************************************)
(* The marketplace with the ledger it settles on.  Buyers fund their       *)
(* deposits with ft_transfer_call to the marketplace, whose ft_on_transfer *)
(* is now code of the model; the marketplace pays sellers and withdrawals  *)
(* with ft_transfer receipts it sends to the ledger.  The nft_transfer of  *)
(* a purchase is code of the asset contract: its outcome is arbitrary.     *)
(* The model follows one purchase, one payment and one withdrawal at a     *)
(* time.                                                                   *)
(***************************************************************************)
MarketNow == MarketStart(market)

MarketReceipt(op, args, st) ==
    [op |-> op, args |-> args @@ NoArgs,
     ok |-> st.ok, panic |-> st.panic, ret |-> st.ret, log |-> <<>>,
     near_out |-> <<>>, calls |-> st.promises,
     pre_accounts |-> accounts, pre_supply |-> total_supply, pre_market |-> market]

\* The contract state a call of the marketplace leaves.
Stored(st) == [ft_id |-> st.ft_id, sales |-> st.sales, ft_deposits |-> st.ft_deposits]

\* A receipt of a user on the marketplace commits.
MarketCommit(op, args, st) ==
    /\ ev.op = "idle"
    /\ st.ok
    /\ Stored(st) # market \/ st.promises # <<>>
    /\ market' = Stored(st)
    /\ ev' = MarketReceipt(op, args, st)
    /\ UNCHANGED <<accounts, total_supply, saga>>

\* A receipt the host runs for a promise: a panic leaves the state as it was.
MarketCallback(op, args, st) ==
    /\ ev.op = "idle"
    /\ market' = IF st.ok THEN Stored(st) ELSE market
    /\ ev' = MarketReceipt(op, args, st)
    /\ UNCHANGED <<accounts, total_supply, saga>>

List(predecessor, token_id, approval_id, price, deposit) ==
    LET st == list(MarketNow, predecessor, NftId, token_id, approval_id, price, deposit) IN
    /\ MarketCommit("list", [predecessor |-> predecessor, token_id |-> token_id,
                             price |-> price, deposit |-> deposit], st)
    /\ UNCHANGED promises

UpdatePrice(predecessor, token_id, price, deposit) ==
    LET st == update_price(MarketNow, predecessor, NftId, token_id, price, deposit) IN
    /\ MarketCommit("update_price", [predecessor |-> predecessor, token_id |-> token_id,
                                     price |-> price, deposit |-> deposit], st)
    /\ UNCHANGED promises

RemoveSale(predecessor, token_id, deposit) ==
    LET st == remove_sale(MarketNow, predecessor, NftId, token_id, deposit) IN
    /\ MarketCommit("remove_sale", [predecessor |-> predecessor, token_id |-> token_id,
                                    deposit |-> deposit], st)
    /\ UNCHANGED promises

\* offer: the purchase it starts is the nft_transfer promise with the
\* resolve_purchase callback that process_purchase creates.
Offer(predecessor, token_id, amount, deposit) ==
    LET st == offer(MarketNow, predecessor, NftId, token_id, amount, deposit) IN
    /\ promises.purchase = NoPromise
    /\ MarketCommit("offer", [predecessor |-> predecessor, buyer_id |-> predecessor,
                              token_id |-> token_id, amount |-> amount,
                              deposit |-> deposit], st)
    /\ promises' = [promises EXCEPT !.purchase =
                      [status |-> "nft_transfer",
                       seller_id |-> st.promises[1].callback.seller_id,
                       buyer_id |-> st.promises[1].callback.buyer_id,
                       price |-> st.promises[1].callback.price,
                       token_id |-> st.promises[1].args.token_id]]

\* Results of nft_transfer, which returns nothing.
Unit == [kind |-> "other", n |-> 0]
CallResults == {Failed, Successful(Unit)}

\* The host runs resolve_purchase with the result of the nft_transfer.
ResolvePurchase(result) ==
    LET call == promises.purchase
        st == resolve_purchase(MarketNow, MarketId, call.seller_id, call.buyer_id,
                               call.price, result)
    IN  /\ call # NoPromise
        /\ promises.payout = NoPromise
        /\ MarketCallback("resolve_purchase",
                          [predecessor |-> MarketId, seller_id |-> call.seller_id,
                           buyer_id |-> call.buyer_id, price |-> call.price,
                           amount |-> call.price, result |-> result,
                           token_id |-> call.token_id], st)
        /\ promises' = [promises EXCEPT
                          !.purchase = NoPromise,
                          !.payout = IF st.ok /\ st.promises # <<>>
                                     THEN [status |-> "ft_transfer",
                                           receiver_id |-> st.promises[1].args.receiver_id,
                                           amount |-> st.promises[1].args.amount,
                                           buyer_id |-> call.buyer_id]
                                     ELSE NoPromise]

\* The ledger executes the ft_transfer that pays the seller.  Nothing waits
\* for its result.
PaySeller ==
    LET call == promises.payout
        st == ft_transfer(Now, MarketId, call.receiver_id, call.amount, 1)
    IN  /\ ev.op = "idle"
        /\ call # NoPromise
        /\ accounts' = IF st.ok THEN st.accounts ELSE accounts
        /\ total_supply' = IF st.ok THEN st.total_supply ELSE total_supply
        /\ ev' = Receipt("ft_transfer",
                         [predecessor |-> MarketId, sender_id |-> MarketId,
                          receiver_id |-> call.receiver_id, amount |-> call.amount,
                          deposit |-> 1, buyer_id |-> call.buyer_id,
                          memo |-> "Sale from marketplace"], st)
        /\ promises' = [promises EXCEPT !.payout = NoPromise]
        /\ UNCHANGED <<saga, market>>

FtWithdraw(predecessor, amount, deposit) ==
    LET st == ft_withdraw(MarketNow, predecessor, amount, deposit) IN
    /\ promises.withdrawal = NoPromise
    /\ MarketCommit("ft_withdraw", [predecessor |-> predecessor, caller |-> predecessor,
                                    amount |-> amount, deposit |-> deposit], st)
    /\ promises' = [promises EXCEPT !.withdrawal =
                      [status |-> "ft_transfer",
                       caller |-> st.promises[1].callback.caller,
                       amount |-> st.promises[1].callback.amount,
                       result |-> NotReady]]

\* The ledger executes the ft_transfer of a withdrawal; its result goes to
\* the resolve_refund callback.
TransferWithdrawal ==
    LET call == promises.withdrawal
        st == ft_transfer(Now, MarketId, call.caller, call.amount, 1)
    IN  /\ ev.op = "idle"
        /\ call # NoPromise
        /\ call.status = "ft_transfer"
        /\ accounts' = IF st.ok THEN st.accounts ELSE accounts
        /\ total_supply' = IF st.ok THEN st.total_supply ELSE total_supply
        /\ ev' = Receipt("ft_transfer",
                         [predecessor |-> MarketId, sender_id |-> MarketId,
                          receiver_id |-> call.caller, amount |-> call.amount,
                          deposit |-> 1, memo |-> "Withdrawing from Marketplace"], st)
        /\ promises' = [promises EXCEPT !.withdrawal =
                          [call EXCEPT !.status = "resolve_refund",
                                       !.result = IF st.ok THEN Successful(Unit) ELSE Failed]]
        /\ UNCHANGED <<saga, market>>

ResolveRefund ==
    LET call == promises.withdrawal
        st == resolve_refund(MarketNow, MarketId, call.caller, call.amount, call.result)
    IN  /\ call # NoPromise
        /\ call.status = "resolve_refund"
        /\ MarketCallback("resolve_refund",
                          [predecessor |-> MarketId, caller |-> call.caller,
                           amount |-> call.amount, result |-> call.result], st)
        /\ promises' = [promises EXCEPT !.withdrawal = NoPromise]

\* A buyer sends tokens to the marketplace: the commit phase on the ledger.
Deposit(predecessor, amount, deposit) ==
    /\ FtTransferCall(predecessor, MarketId, amount, deposit)

\* The marketplace's ft_on_transfer runs for the chain in flight: called by
\* the ledger, in a transaction signed by the sender.
MarketFtOnTransfer ==
    LET st == ft_on_transfer(MarketNow, FtId, saga.sender_id, saga.sender_id, saga.amount)
    IN  /\ saga # NoSaga
        /\ saga.receiver_id = MarketId
        /\ promises.notified = NoPromise
        /\ MarketCallback("ft_on_transfer",
                          [predecessor |-> FtId, signer_id |-> saga.sender_id,
                           sender_id |-> saga.sender_id, amount |-> saga.amount], st)
        /\ promises' = [promises EXCEPT !.notified =
                          [status |-> "returned",
                           result |-> IF st.ok
                                      THEN Successful([kind |-> "string", n |-> st.ret])
                                      ELSE Failed]]

\* The ledger resolves the chain with the result of the marketplace.
ResolveDeposit ==
    LET result == promises.notified.result
        st == ft_resolve_transfer(Now, saga.sender_id, saga.receiver_id, saga.amount, result)
    IN  /\ ev.op = "idle"
        /\ saga # NoSaga
        /\ promises.notified # NoPromise
        /\ accounts' = IF st.ok THEN st.accounts ELSE accounts
        /\ total_supply' = IF st.ok THEN st.total_supply ELSE total_supply
        /\ saga' = NoSaga
        /\ ev' = Receipt("ft_resolve_transfer",
                         [predecessor |-> FtId, sender_id |-> saga.sender_id,
                          receiver_id |-> saga.receiver_id, amount |-> saga.amount,
                          result |-> result, sender_before |-> saga.sender_before,
                          receiver_committed |-> saga.receiver_committed], st)
        /\ promises' = [promises EXCEPT !.notified = NoPromise]
        /\ UNCHANGED market

\* The account that sells, the account that buys (the owner, who holds the
\* supply), and the accounts that register on the ledger besides the owner:
\* the seller and the marketplace.
Sellers == {"bob"}
Buyers == {OwnerId}
Registrants == Sellers \cup {MarketId}

\* Prices a seller asks: nothing, or the whole range.
Prices == {0, U128_MAX}

MarketNext ==
    \/ \E a \in Registrants : StorageDeposit(OwnerId, a, storage_balance_bounds_min)
    \/ \E p \in Users, n \in Amounts, d \in Deposits : Deposit(p, n, d)
    \/ MarketFtOnTransfer
    \/ ResolveDeposit
    \/ \E p \in Sellers, t \in TokenIds, a \in ApprovalIds, n \in Prices, d \in Deposits :
          List(p, t, a, n, d)
    \/ \E p \in Users, t \in TokenIds, n \in Prices, d \in Deposits :
          UpdatePrice(p, t, n, d)
    \/ \E p \in Users, t \in TokenIds, d \in Deposits : RemoveSale(p, t, d)
    \/ \E p \in Users, t \in TokenIds, n \in Amounts, d \in Deposits : Offer(p, t, n, d)
    \/ \E r \in CallResults : ResolvePurchase(r)
    \/ PaySeller
    \/ \E p \in Buyers, n \in Amounts, d \in Deposits : FtWithdraw(p, n, d)
    \/ TransferWithdrawal
    \/ ResolveRefund
    \/ HostIdle

MarketSpec == Init /\ [][MarketNext]_vars

(***************************************************************************)
(* The deposits of the marketplace alone: buyers deposit and withdraw, and *)
(* a buyer may leave the ledger, and register again, while its tokens are  *)
(* with the marketplace, so that the transfer of a withdrawal can fail.    *)
(***************************************************************************)
EscrowNext ==
    \/ \E a \in Registrants \cup Buyers :
          StorageDeposit(OwnerId, a, storage_balance_bounds_min)
    \/ \E p \in Buyers, force \in BOOLEAN, d \in Deposits : StorageUnregister(p, force, d)
    \/ \E p \in Users, n \in Amounts, d \in Deposits : Deposit(p, n, d)
    \/ MarketFtOnTransfer
    \/ ResolveDeposit
    \/ \E p \in Users, n \in Amounts, d \in Deposits : FtWithdraw(p, n, d)
    \/ TransferWithdrawal
    \/ ResolveRefund
    \/ HostIdle

EscrowSpec == Init /\ [][EscrowNext]_vars

(***************************************************************************)
(* The deposits of the marketplace on a ledger whose ft_resolve_transfer   *)
(* any account may call: a buyer names itself the sender and the           *)
(* marketplace the receiver of a chain that never was.                     *)
(***************************************************************************)
OpenEscrowNext ==
    \/ \E a \in {MarketId} : StorageDeposit(OwnerId, a, storage_balance_bounds_min)
    \/ \E p \in Buyers, n \in Amounts, d \in Deposits : Deposit(p, n, d)
    \/ MarketFtOnTransfer
    \/ ResolveDeposit
    \/ \E p \in Buyers, n \in Amounts, o \in RogueResults :
          CallFtResolveTransfer(p, MarketId, n, o)
    \/ \E p \in Buyers, n \in Amounts, d \in Deposits : FtWithdraw(p, n, d)
    \/ TransferWithdrawal
    \/ ResolveRefund
    \/ HostIdle

OpenEscrowSpec == Init /\ [][OpenEscrowNext]_vars

(***************************************************************************)
(* Properties.  The record ev gives the receipt just executed, the         *)
(* contract state before it (pre_accounts, pre_supply) and its outcome.    *)
(***************************************************************************)
\* The last receipt was an execution of ft_resolve_transfer.
Resolved == ev.op = "ft_resolve_transfer"
\* ... run by the host as the callback of an ft_transfer_call chain.
HostResolved == Resolved /\ ev.args.predecessor = FtId
\* The amount of the refund event the last receipt logged, 0 without one.
Refunded == IF ev.log = <<>> THEN 0 ELSE ev.log[1].amount
\* The receiver's and the sender's balance when the last receipt started.
ReceiverBefore == ft_balance_of(ev.pre_accounts, ev.args.receiver_id)
SenderBefore == ft_balance_of(ev.pre_accounts, ev.args.sender_id)
ReceiverAfter == ft_balance_of(accounts, ev.args.receiver_id)
SenderAfter == ft_balance_of(accounts, ev.args.sender_id)
\* The last receipt left the contract state as it found it.
StateUnchanged == accounts = ev.pre_accounts /\ total_supply = ev.pre_supply
\* ft_on_transfer failed, or returned something that is no U128.
WholeUnused(result) ==
    \/ result.tag = "Failed"
    \/ result.tag = "Successful" /\ from_slice_U128(result.value) = None

\* C1: whenever no transfer-with-callback chain is between its commit and
\* its resolution, total_supply equals the sum of all account balances; in
\* particular right after a resolution.
SupplyEqualsSumOfBalances ==
    saga = NoSaga => total_supply = SumBalances(accounts)

\* C1 case: a chain has just been resolved with a partial refund, so that
\* tokens have moved both ways between the two accounts.
SupplyAfterPartialRefund ==
    /\ HostResolved /\ ev.ok
    /\ 0 < Refunded /\ Refunded < ev.args.amount
    /\ saga = NoSaga

\* C2: a transfer that succeeds moves the amount from A to B, A # B, and
\* leaves balance(A) + balance(B) unchanged; every ft_transfer and
\* ft_transfer_call with A = B or with amount 0 panics, in every contract
\* state the host takes a receipt in.
TransferConservesAndRejects ==
    /\ ev.op \in {"ft_transfer", "ft_transfer_call"} =>
          /\ ev.ok
          /\ ev.args.sender_id # ev.args.receiver_id
          /\ ev.args.amount > 0
          /\ SenderAfter + ReceiverAfter = SenderBefore + ReceiverBefore
          /\ SenderAfter = SenderBefore - ev.args.amount
          /\ total_supply = ev.pre_supply
    /\ ev.op = "idle" =>
          \A p \in Users, r \in Users, n \in Amounts, d \in Deposits :
          (p = r \/ n = 0) =>
              /\ ~ft_transfer(Now, p, r, n, d).ok
              /\ ~ft_transfer_call(Now, p, r, n, d).ok

\* C2 case: a transfer to an account that held tokens already has
\* succeeded.
TransferBetweenHolders ==
    /\ ev.op = "ft_transfer" /\ ev.ok
    /\ ReceiverBefore > 0
    /\ ReceiverAfter = ReceiverBefore + ev.args.amount

\* C3: every execution of ft_resolve_transfer that changes the ledger was
\* called by the contract itself.
OnlySelfResolves ==
    Resolved /\ ~StateUnchanged => ev.args.predecessor = FtId

\* C4 as stated: after a failed or unparsable ft_on_transfer the full
\* amount goes from the receiver back to the sender, whose balance is again
\* what it was before ft_transfer_call.
FullRefundRestoresSender ==
    HostResolved /\ WholeUnused(ev.args.result) =>
        /\ ev.ok
        /\ Refunded = ev.args.amount
        /\ ReceiverAfter = ReceiverBefore - ev.args.amount
        /\ SenderAfter = ev.args.sender_before

\* C4 amended: after a failed or unparsable ft_on_transfer the whole amount
\* counts as unused and the refund due is the smaller of the amount and the
\* receiver's balance at resolution.  With the sender registered, or no
\* refund due, the resolution moves the refund from the receiver to the
\* sender and returns amount - refund; with a refund due and the sender
\* unregistered it panics and changes nothing.
WholeAmountUnusedRefund ==
    HostResolved /\ WholeUnused(ev.args.result) =>
        LET due == Min(ev.args.amount, ReceiverBefore) IN
        IF due > 0 /\ ev.args.sender_id \notin DOMAIN ev.pre_accounts
        THEN ~ev.ok /\ StateUnchanged
        ELSE /\ ev.ok
             /\ Refunded = due
             /\ ReceiverAfter = ReceiverBefore - due
             /\ SenderAfter = SenderBefore + due
             /\ ev.ret = ev.args.amount - due
             /\ (ReceiverBefore >= ev.args.amount => Refunded = ev.args.amount)

\* C4 case: the handler returned something unparsable, the receiver had
\* spent part of the amount, and the refund was what it still held.
UnparsableResultPartialRefund ==
    /\ HostResolved /\ ev.ok
    /\ ev.args.result.tag = "Successful" /\ ev.args.result.value.kind = "other"
    /\ 0 < Refunded /\ Refunded < ev.args.amount

\* C5: in every execution of ft_resolve_transfer that returns, the unused
\* amount is min(reported, amount) for a reported number, and the refund
\* taken from the receiver and credited to the sender is at most the amount.
RefundAtMostAmount ==
    Resolved /\ ev.ok =>
        /\ Refunded <= ev.args.amount
        /\ Refunded <= unused_amount(ev.args.result, ev.args.amount)
        /\ ev.args.result.tag = "Successful" /\ ev.args.result.value.kind = "string" =>
              /\ unused_amount(ev.args.result, ev.args.amount)
                    = Min(ev.args.result.value.n, ev.args.amount)
              /\ Refunded = Min(Min(ev.args.result.value.n, ev.args.amount), ReceiverBefore)
        /\ ev.args.sender_id # ev.args.receiver_id =>
              /\ ReceiverBefore - ReceiverAfter = Refunded
              /\ SenderAfter - SenderBefore = Refunded

\* C5 case: the receiver reported more than it was sent while holding more
\* than it was sent, and exactly the amount was refunded.
OverReportedRefund ==
    /\ HostResolved /\ ev.ok
    /\ ev.args.result.tag = "Successful" /\ ev.args.result.value.kind = "string"
    /\ ev.args.result.value.n > ev.args.amount
    /\ ReceiverBefore > ev.args.amount
    /\ Refunded = ev.args.amount

\* C6: when the receiver's balance at resolution is below the unused amount,
\* the resolution does not panic and refunds exactly that balance.
OverspentRefundCompletes ==
    (/\ HostResolved
     /\ 0 < ReceiverBefore
     /\ ReceiverBefore < unused_amount(ev.args.result, ev.args.amount)) =>
        /\ ev.ok
        /\ Refunded = ReceiverBefore
        /\ ev.ret = ev.args.amount - ReceiverBefore

\* C7 as stated: a resolution that returns gives used = amount - refund,
\* 0 <= used <= amount, and leaves the sender with its balance before
\* ft_transfer_call minus used.
SenderEndsAtBeforeCallMinusUsed ==
    HostResolved /\ ev.ok =>
        /\ ev.ret = ev.args.amount - Refunded
        /\ 0 <= ev.ret /\ ev.ret <= ev.args.amount
        /\ SenderAfter = ev.args.sender_before - ev.ret

\* C7 amended: a resolution that returns gives used = amount - refund,
\* 0 <= used <= amount, and leaves the sender with its balance just before
\* the resolution plus the refund; a refund is credited to a registered
\* sender only.
UsedIsAmountMinusRefund ==
    HostResolved /\ ev.ok =>
        /\ ev.ret = ev.args.amount - Refunded
        /\ 0 <= ev.ret /\ ev.ret <= ev.args.amount
        /\ SenderAfter = SenderBefore + Refunded
        /\ Refunded > 0 => ev.args.sender_id \in DOMAIN ev.pre_accounts
        /\ SenderBefore = ev.args.sender_before - ev.args.amount =>
              SenderAfter = ev.args.sender_before - ev.ret

\* C7 case: part of the amount was used, and the sender's balance had been
\* changed by another receipt between the commit and the resolution.
PartlyUsedAfterOtherReceipt ==
    /\ HostResolved /\ ev.ok
    /\ 0 < ev.ret /\ ev.ret < ev.args.amount
    /\ SenderBefore # ev.args.sender_before - ev.args.amount

\* C8 as stated: after a failed handler the full amount is refunded and the
\* receiver's balance is what it was right after the commit.
ReceiverKeepsCommittedBalance ==
    HostResolved /\ ev.args.result = Failed /\ ev.ok =>
        /\ Refunded = ev.args.amount
        /\ ReceiverAfter = ev.args.receiver_committed

\* C8 amended: after a failed handler, with the sender registered, the
\* resolution returns, the refund is the smaller of the amount and the
\* receiver's balance at resolution, and the receiver ends with that
\* balance minus the refund: its balance right after the commit minus the
\* amount when no other receipt changed it in between.
FailedHandlerDebitsReceiver ==
    (/\ HostResolved
     /\ ev.args.result = Failed
     /\ ev.args.sender_id \in DOMAIN ev.pre_accounts) =>
        /\ ev.ok
        /\ Refunded = Min(ev.args.amount, ReceiverBefore)
        /\ ReceiverAfter = ReceiverBefore - Refunded
        /\ ReceiverBefore = ev.args.receiver_committed =>
              /\ Refunded = ev.args.amount
              /\ ReceiverAfter = ev.args.receiver_committed - ev.args.amount

\* C8 case: the handler failed, the receiver held more than the amount with
\* its balance as the commit left it, and the full amount was taken back.
FailedHandlerFullRefund ==
    /\ HostResolved /\ ev.ok
    /\ ev.args.result = Failed
    /\ ReceiverBefore = ev.args.receiver_committed
    /\ ReceiverBefore > ev.args.amount
    /\ ReceiverAfter = ev.args.receiver_committed - ev.args.amount

\* C9: when the sender is no longer registered at resolution, the refund
\* due is taken from the receiver and from total_supply, and the resolution
\* returns.
UnregisteredSenderBurns ==
    HostResolved /\ ev.args.sender_id \notin DOMAIN ev.pre_accounts =>
        LET due == Min(unused_amount(ev.args.result, ev.args.amount), ReceiverBefore) IN
        /\ ev.ok
        /\ ReceiverAfter = ReceiverBefore - due
        /\ total_supply = ev.pre_supply - due

\* C10: the resolution of a chain takes effect, and a resolution takes
\* effect as the callback of a chain only: when the callback has run it has
\* returned, and no other execution of ft_resolve_transfer moves tokens.
ResolutionTakesEffectOnce ==
    /\ HostResolved => ev.ok
    /\ Resolved /\ ev.args.predecessor # FtId => Refunded = 0

\* C11 as stated: at the start of ft_resolve_transfer the balances of the
\* sender and of the receiver are those the commit phase left.
ResolveStartsFromCommittedBalances ==
    HostResolved =>
        /\ SenderBefore = ev.args.sender_before - ev.args.amount
        /\ ReceiverBefore = ev.args.receiver_committed

\* C11 amended: receipts executed between the commit and the resolution
\* may have changed both balances; ft_resolve_transfer works from the
\* balances it finds.  With the sender registered it returns, the refund is
\* min(unused amount, receiver's balance at its start), and it changes the
\* balances of the sender and the receiver only: total_supply, the set of
\* registered accounts and every other balance stay as they were.
ResolveWorksFromCurrentBalances ==
    (HostResolved /\ ev.args.sender_id \in DOMAIN ev.pre_accounts) =>
        /\ ev.ok
        /\ Refunded = Min(unused_amount(ev.args.result, ev.args.amount), ReceiverBefore)
        /\ ReceiverAfter = ReceiverBefore - Refunded
        /\ SenderAfter = SenderBefore + Refunded
        /\ total_supply = ev.pre_supply
        /\ DOMAIN accounts = DOMAIN ev.pre_accounts
        /\ \A a \in DOMAIN accounts :
              a \notin {ev.args.sender_id, ev.args.receiver_id} =>
                  accounts[a] = ev.pre_accounts[a]

\* C11 case: a resolution that started from balances of the sender and of
\* the receiver that both differ from those the commit left.
ResolvedAfterInterleaving ==
    /\ HostResolved /\ ev.ok
    /\ SenderBefore # ev.args.sender_before - ev.args.amount
    /\ ReceiverBefore # ev.args.receiver_committed
    /\ Refunded > 0

\* C12: an ft_transfer or ft_transfer_call whose sender or receiver is not
\* registered panics, so nothing of it is written, in every contract state
\* the host takes a receipt in; every transfer that committed was between
\* two registered accounts, and the set of registered accounts is as before.
UnregisteredPartyFailsTransfer ==
    /\ ev.op \in {"ft_transfer", "ft_transfer_call"} =>
          /\ ev.args.sender_id \in DOMAIN ev.pre_accounts
          /\ ev.args.receiver_id \in DOMAIN ev.pre_accounts
          /\ DOMAIN accounts = DOMAIN ev.pre_accounts
    /\ ev.op = "idle" =>
          \A p \in Users, r \in Users, n \in Amounts :
              (p \notin DOMAIN accounts \/ r \notin DOMAIN accounts) =>
                  /\ ~ft_transfer(Now, p, r, n, 1).ok
                  /\ ~ft_transfer_call(Now, p, r, n, 1).ok

\* C12 case: the withdraw from a registered sender succeeds and changes its
\* balance, the receiver is not registered, and the transfer panics.
WithdrawDoneDepositFails ==
    /\ ev.op = "idle"
    /\ \E p \in DOMAIN accounts, r \in Users \ DOMAIN accounts :
          /\ internal_withdraw(Now, p, 1).ok
          /\ internal_withdraw(Now, p, 1).accounts[p] = accounts[p] - 1
          /\ ~ft_transfer(Now, p, r, 1, 1).ok
          /\ ft_transfer(Now, p, r, 1, 1).panic = "The account is not registered"

\* C13: internal_withdraw of more than the balance panics and leaves the
\* balances and total_supply it was given, in every contract state the host
\* takes a receipt in and in the state a successful withdraw of the same
\* account leaves; a transfer of more than the sender's balance panics.
OverdrawFailsCleanly ==
    ev.op = "idle" =>
        \A a \in DOMAIN accounts, n \in Amounts, m \in Amounts :
            /\ n > accounts[a] =>
                  /\ ~internal_withdraw(Now, a, n).ok
                  /\ internal_withdraw(Now, a, n).accounts = accounts
                  /\ internal_withdraw(Now, a, n).total_supply = total_supply
                  /\ \A r \in Users : ~ft_transfer(Now, a, r, n, 1).ok
            /\ LET first == internal_withdraw(Now, a, m)
                   second == internal_withdraw(first, a, n)
               IN  (first.ok /\ n > first.accounts[a]) =>
                      /\ ~second.ok
                      /\ second.accounts = first.accounts
                      /\ second.total_supply = first.total_supply

\* C13 case: a withdraw that succeeds and leaves a positive balance is
\* followed by a withdraw of more than is left.
OverdrawAfterWithdraw ==
    /\ ev.op = "idle"
    /\ \E a \in DOMAIN accounts, m \in Amounts, n \in Amounts :
          LET first == internal_withdraw(Now, a, m) IN
          /\ m > 0 /\ first.ok
          /\ first.accounts[a] > 0
          /\ n > first.accounts[a]
          /\ ~internal_withdraw(first, a, n).ok

\* C14: a transfer that committed took exactly the amount from the sender
\* and gave exactly the amount to the receiver; total_supply, the set of
\* registered accounts and every other balance are as before (the withdraw
\* alone lowers total_supply by the amount, the deposit raises it again).
TransferFrame ==
    ev.op \in {"ft_transfer", "ft_transfer_call"} =>
        /\ ev.ok
        /\ SenderAfter = SenderBefore - ev.args.amount
        /\ ReceiverAfter = ReceiverBefore + ev.args.amount
        /\ total_supply = ev.pre_supply
        /\ internal_withdraw(Start(ev.pre_accounts, ev.pre_supply),
                             ev.args.sender_id, ev.args.amount).total_supply
              = ev.pre_supply - ev.args.amount
        /\ DOMAIN accounts = DOMAIN ev.pre_accounts
        /\ \A a \in DOMAIN accounts :
              a \notin {ev.args.sender_id, ev.args.receiver_id} =>
                  accounts[a] = ev.pre_accounts[a]

\* C14 case: a transfer committed while a third account held tokens.
TransferBesideThirdHolder ==
    /\ ev.op = "ft_transfer" /\ ev.ok
    /\ \E a \in DOMAIN accounts :
          /\ a \notin {ev.args.sender_id, ev.args.receiver_id}
          /\ accounts[a] > 0

(***************************************************************************)
(* The marketplace.                                                        *)
(***************************************************************************)
\* The calls that move value, on the ledger and on the marketplace.
ValueMoves == {"ft_transfer", "ft_transfer_call", "storage_unregister",
               "offer", "ft_withdraw", "update_price", "remove_sale"}

\* C15: a call that moves value (ft_transfer, ft_transfer_call,
\* storage_unregister on the ledger; offer, ft_withdraw, update_price,
\* remove_sale on the marketplace) aborts, and so changes no state, unless
\* exactly one yoctoNEAR is attached: every such call that took effect
\* carried one yoctoNEAR, and in every state each of them panics with any
\* other attachment, whatever its other arguments.
ValueMovesNeedOneYocto ==
    /\ ev.op \in ValueMoves /\ ev.ok => ev.args.deposit = 1
    /\ ev.op = "idle" =>
          \A p \in Users, n \in Amounts, d \in Deposits \ {1} :
            /\ \A r \in Users \cup {MarketId} :
                  /\ ~ft_transfer(Now, p, r, n, d).ok
                  /\ ~ft_transfer_call(Now, p, r, n, d).ok
            /\ \A force \in BOOLEAN : ~storage_unregister(Now, p, force, d).ok
            /\ ~ft_withdraw(MarketNow, p, n, d).ok
            /\ \A t \in TokenIds :
                  /\ ~offer(MarketNow, p, NftId, t, n, d).ok
                  /\ ~update_price(MarketNow, p, NftId, t, n, d).ok
                  /\ ~remove_sale(MarketNow, p, NftId, t, d).ok

\* C15 witness: a state where an offer, a withdrawal, a price update, a
\* delisting and a transfer would each take effect with one yoctoNEAR
\* attached, and each is refused with two.
RefusedForTwoYocto ==
    /\ ev.op = "idle"
    /\ \E p \in Users, n \in Amounts, t \in TokenIds :
          offer(MarketNow, p, NftId, t, n, 1).ok /\ ~offer(MarketNow, p, NftId, t, n, 2).ok
    /\ \E p \in Users, n \in Amounts \ {0} :
          ft_withdraw(MarketNow, p, n, 1).ok /\ ~ft_withdraw(MarketNow, p, n, 2).ok
    /\ \E p \in Users, n \in Amounts, t \in TokenIds :
          /\ update_price(MarketNow, p, NftId, t, n, 1).ok
          /\ ~update_price(MarketNow, p, NftId, t, n, 2).ok
          /\ remove_sale(MarketNow, p, NftId, t, 1).ok
          /\ ~remove_sale(MarketNow, p, NftId, t, 2).ok
    /\ \E p \in Users, n \in Amounts :
          /\ ft_transfer(Now, p, MarketId, n, 1).ok
          /\ ~ft_transfer(Now, p, MarketId, n, 2).ok
          /\ ft_transfer_call(Now, p, MarketId, n, 1).ok
          /\ ~ft_transfer_call(Now, p, MarketId, n, 2).ok
          /\ storage_unregister(Now, p, TRUE, 1).ok
          /\ ~storage_unregister(Now, p, TRUE, 2).ok

\* The ledger has just executed the ft_transfer that pays a seller.
SellerPaid == ev.op = "ft_transfer" /\ ev.args.memo = "Sale from marketplace"

\* C16: an accepted offer of amount a ends with no funds lost: once the
\* purchase has settled, which is when the ledger has executed the
\* marketplace's transfer to the seller and no callback of the purchase
\* remains, the seller's ledger balance has been credited with a.
SettledPurchaseCreditsSeller ==
    SellerPaid =>
        /\ ev.ok
        /\ ft_balance_of(accounts, ev.args.receiver_id)
             = ft_balance_of(ev.pre_accounts, ev.args.receiver_id) + ev.args.amount

\* The Sale Record of an asset of the asset contract, if listed.
Listed(m, token_id) == ContractAndTokenId(NftId, token_id) \in DOMAIN m.sales
SaleOf(m, token_id) == m.sales[ContractAndTokenId(NftId, token_id)]

\* C17: an offer whose amount is below the price of the sale fails, so the
\* Sale Record and every deposit stay as they were: in every state such an
\* offer panics, whoever makes it and whatever is attached, and every offer
\* that took effect was of at least the price.
OfferBelowPriceFails ==
    /\ ev.op = "offer" =>
          /\ Listed(ev.pre_market, ev.args.token_id)
          /\ ev.args.amount >= SaleOf(ev.pre_market, ev.args.token_id).sale_conditions
    /\ ev.op = "idle" =>
          \A p \in Users, t \in TokenIds, n \in Amounts, d \in Deposits :
             Listed(market, t) /\ n < SaleOf(market, t).sale_conditions
                => ~offer(MarketNow, p, NftId, t, n, d).ok

\* C17 witness: a buyer whose deposit covers the amount offers less than
\* the price, and the offer fails for that reason alone.
CoveredOfferBelowPrice ==
    /\ ev.op = "idle"
    /\ \E p \in Users, t \in TokenIds, n \in Amounts :
          /\ Listed(market, t)
          /\ SaleOf(market, t).owner_id # p
          /\ n < SaleOf(market, t).sale_conditions
          /\ p \in DOMAIN market.ft_deposits
          /\ market.ft_deposits[p] >= n
          /\ n > 0
          /\ offer(MarketNow, p, NftId, t, n, 1).panic
               = "Offer amount must be greater than or eqaul to the price"

\* C18: an offer of an amount above the buyer's deposit, or by a buyer
\* that never deposited, fails, so the Sale Record and every deposit stay
\* as they were: in every state such an offer panics, and every offer that
\* took effect was covered by the buyer's deposit and left it lower by the
\* amount.
UncoveredOfferFails ==
    /\ ev.op = "offer" =>
          /\ ev.args.buyer_id \in DOMAIN ev.pre_market.ft_deposits
          /\ ev.pre_market.ft_deposits[ev.args.buyer_id] >= ev.args.amount
          /\ market.ft_deposits[ev.args.buyer_id]
               = ev.pre_market.ft_deposits[ev.args.buyer_id] - ev.args.amount
    /\ ev.op = "idle" =>
          \A p \in Users, t \in TokenIds, n \in Amounts, d \in Deposits :
             (p \notin DOMAIN market.ft_deposits \/ market.ft_deposits[p] < n)
                => ~offer(MarketNow, p, NftId, t, n, d).ok

\* C18 witness: at the price of the sale, a buyer offers more than its
\* deposit and a buyer without a deposit offers, and both fail for that
\* reason alone.
OfferAboveDeposit ==
    /\ ev.op = "idle"
    /\ \E p \in Users, t \in TokenIds, n \in Amounts :
          /\ Listed(market, t)
          /\ SaleOf(market, t).owner_id # p
          /\ n >= SaleOf(market, t).sale_conditions
          /\ p \in DOMAIN market.ft_deposits
          /\ market.ft_deposits[p] > 0
          /\ market.ft_deposits[p] < n
          /\ offer(MarketNow, p, NftId, t, n, 1).panic
               = "Not enough FTs in balance to cover offer"
    /\ \E p \in Users, t \in TokenIds :
          /\ Listed(market, t)
          /\ SaleOf(market, t).owner_id # p
          /\ p \notin DOMAIN market.ft_deposits
          /\ ~offer(MarketNow, p, NftId, t, SaleOf(market, t).sale_conditions, 1).ok

\* C19: an accepted offer of amount a, in its own transition and before
\* the asset transfer has any outcome, lowers the buyer's deposit by exactly
\* a, leaves every other deposit alone, removes the Sale Record and no
\* other, and issues exactly one nft_transfer to the asset contract, for
\* the buyer, chained to one resolve_purchase callback that carries the
\* seller of the removed sale, the buyer and a.
AcceptedOfferLocksAndCalls ==
    ev.op = "offer" =>
        LET buyer == ev.args.predecessor
            key == ContractAndTokenId(NftId, ev.args.token_id)
            sale == ev.pre_market.sales[key]
            call == ev.calls[1]
        IN  /\ ev.ok
            /\ market.ft_deposits =
                  [ev.pre_market.ft_deposits EXCEPT ![buyer] = @ - ev.args.amount]
            /\ market.sales = Remove(ev.pre_market.sales, key)
            /\ Len(ev.calls) = 1
            /\ call.receiver = NftId
            /\ call.method = "nft_transfer"
            /\ call.args.receiver_id = buyer
            /\ call.args.token_id = ev.args.token_id
            /\ call.args.approval_id = sale.approval_id
            /\ call.callback = [method |-> "resolve_purchase", seller_id |-> sale.owner_id,
                                buyer_id |-> buyer, price |-> ev.args.amount]
            /\ promises.purchase.status = "nft_transfer"

\* C19 witness: an offer above the price has been accepted.
OfferAbovePriceAccepted ==
    /\ ev.op = "offer"
    /\ ev.args.amount > SaleOf(ev.pre_market, ev.args.token_id).sale_conditions
    /\ ev.pre_market.ft_deposits[ev.args.predecessor] > ev.args.amount

\* The host has just run resolve_purchase for a failed asset transfer.
PurchaseFailed == ev.op = "resolve_purchase" /\ ev.args.result = Failed

PurchaseSucceeded == ev.op = "resolve_purchase" /\ ev.args.result.tag = "Successful"

\* The one call a receipt has issued is the ledger transfer of the amount
\* to the seller, with nothing chained to it.
PaysSeller(calls, seller_id, amount) ==
    /\ Len(calls) = 1
    /\ calls[1].receiver = FtId
    /\ calls[1].method = "ft_transfer"
    /\ calls[1].args = [receiver_id |-> seller_id, amount |-> amount]
    /\ calls[1].callback = NoCallback

\* C21 as stated: when the asset transfer of a purchase succeeded,
\* resolve_purchase issues exactly one ledger transfer to the seller, of
\* the amount the offer took from the buyer's deposit, returns that amount
\* and credits nothing back to the buyer.
SuccessfulPurchasePaysSeller ==
    PurchaseSucceeded =>
        /\ ev.ok
        /\ PaysSeller(ev.calls, ev.args.seller_id, ev.args.price)
        /\ ev.ret = ev.args.price
        /\ market = ev.pre_market

\* C21 amended: the same for every positive amount; for a purchase of
\* amount zero resolve_purchase issues no transfer, returns zero and leaves
\* every deposit as it was.
PositivePurchasePaysSeller ==
    PurchaseSucceeded =>
        /\ ev.ok
        /\ ev.ret = ev.args.price
        /\ market = ev.pre_market
        /\ promises.purchase = NoPromise
        /\ IF ev.args.price > 0
           THEN /\ PaysSeller(ev.calls, ev.args.seller_id, ev.args.price)
                /\ promises.payout.status = "ft_transfer"
                /\ promises.payout.receiver_id = ev.args.seller_id
                /\ promises.payout.amount = ev.args.price
           ELSE /\ ev.calls = <<>>
                /\ promises.payout = NoPromise

\* C21 witness: a purchase of a positive amount succeeded and its payment
\* to the seller is on its way to the ledger.
SellerPaymentIssued ==
    /\ PurchaseSucceeded
    /\ ev.args.price > 0
    /\ PaysSeller(ev.calls, ev.args.seller_id, ev.args.price)

\* The deposits of every account but one are as they were before the
\* receipt.
OtherDepositsKept(account_id) ==
    /\ DOMAIN market.ft_deposits \ {account_id}
         = DOMAIN ev.pre_market.ft_deposits \ {account_id}
    /\ \A a \in DOMAIN market.ft_deposits \ {account_id} :
          market.ft_deposits[a] = ev.pre_market.ft_deposits[a]

Escrow(b) == ft_deposits_of(market.ft_deposits, b)
AwaitingResolution(b) ==
    (IF promises.purchase # NoPromise /\ promises.purchase.buyer_id = b
     THEN promises.purchase.price ELSE 0)
    + (IF promises.withdrawal # NoPromise /\ promises.withdrawal.caller = b
       THEN promises.withdrawal.amount ELSE 0)

\* What the receipt just executed credited to a buyer by ft_on_transfer,
\* and what it settled: handed over for the seller by resolve_purchase, or
\* confirmed as withdrawn by resolve_refund.
CreditedNow(b) ==
    IF ev.op = "ft_on_transfer" /\ ev.ok /\ ev.args.sender_id = b THEN ev.args.amount ELSE 0
SettledNow(b) ==
    IF ev.op = "resolve_purchase" /\ ev.args.result.tag = "Successful" /\ ev.args.buyer_id = b
    THEN ev.args.price
    ELSE IF ev.op = "resolve_refund" /\ ev.args.result.tag = "Successful" /\ ev.args.caller = b
    THEN ev.args.amount
    ELSE 0

\* The receipt just executed is a refund to the buyer: the callback of a
\* purchase or of a withdrawal whose call failed.
RefundNow(b) ==
    \/ ev.op = "resolve_purchase" /\ ev.args.result = Failed /\ ev.args.buyer_id = b
    \/ ev.op = "resolve_refund" /\ ev.args.result = Failed /\ ev.args.caller = b

Accounts == Users \cup {FtId, MarketId}

\* C24: ft_on_transfer credits a deposit only when its caller is the
\* configured ledger and the signer of the transaction is the sender it is
\* given: called by any other account, or with another sender, it panics
\* in every state, for every amount, and no deposit changes.
OnlyLedgerAndSignerCredit ==
    /\ ev.op = "ft_on_transfer" =>
          IF ev.ok
          THEN ev.args.predecessor = ev.pre_market.ft_id /\ ev.args.signer_id = ev.args.sender_id
          ELSE market = ev.pre_market
    /\ ev.op = "idle" =>
          \A predecessor \in Accounts, signer_id \in Accounts, sender_id \in Accounts,
             amount \in Amounts :
             ~(predecessor = market.ft_id /\ signer_id = sender_id)
                => ~ft_on_transfer(MarketNow, predecessor, signer_id, sender_id, amount).ok

\* C24 witness: in one state a deposit notification from the ledger for
\* its signer would be credited, and the same notification is refused
\* when it comes from the sender itself and when it names another sender.
SpoofedNotificationRefused ==
    /\ ev.op = "idle"
    /\ \E signer_id \in Users, other \in Users, amount \in Amounts \ {0} :
          /\ other # signer_id
          /\ signer_id \in DOMAIN market.ft_deposits
          /\ ft_on_transfer(MarketNow, FtId, signer_id, signer_id, amount).ft_deposits[signer_id]
               = market.ft_deposits[signer_id] + amount
          /\ ft_on_transfer(MarketNow, signer_id, signer_id, signer_id, amount).panic
               = "FT contract ID does not match"
          /\ ft_on_transfer(MarketNow, FtId, signer_id, other, amount).panic
               = "owner_id should be signer_id"

OnlySellerUpdatesOrDelists ==
    /\ ev.op \in {"update_price", "remove_sale"} =>
          /\ Listed(ev.pre_market, ev.args.token_id)
          /\ ev.args.predecessor = SaleOf(ev.pre_market, ev.args.token_id).owner_id
    /\ ev.op = "idle" =>
          \A p \in Users, t \in TokenIds, n \in Amounts, d \in Deposits :
             ~Listed(market, t) \/ SaleOf(market, t).owner_id # p
                => /\ ~update_price(MarketNow, p, NftId, t, n, d).ok
                   /\ ~remove_sale(MarketNow, p, NftId, t, d).ok

\* C26 witness: an account that is not the seller tries to delist and to
\* change the price of a listed sale; remove_sale has taken the record out
\* when it panics at the owner check, and the stored record stays.
StrangerCannotDelist ==
    /\ ev.op = "idle"
    /\ \E p \in Users, t \in TokenIds :
          /\ Listed(market, t)
          /\ SaleOf(market, t).owner_id # p
          /\ remove_sale(MarketNow, p, NftId, t, 1).panic = "Must be sale owner"
          /\ ~Listed(remove_sale(MarketNow, p, NftId, t, 1), t)
          /\ update_price(MarketNow, p, NftId, t, 0, 1).panic = "Must be sale owner"

\* C27 as stated: a Sale Record leaves the sales map only when the asset
\* is purchased or when its seller delists it; so when the purchase of an
\* asset has failed, and the asset has changed hands no more than it has
\* been delisted, its Sale Record is listed.
UnsoldAssetStaysListed ==
    PurchaseFailed => Listed(market, ev.args.token_id)

\* C27 amended: in every step a listed Sale Record either stays as it is,
\* or gets a new price by an update_price of its seller, or leaves the
\* sales map by a remove_sale of its seller or by an accepted offer of
\* another account, before the asset transfer has any outcome;
\* resolve_purchase does not touch the sales map, so the record of an
\* accepted offer is not put back when the asset transfer fails.
SaleRecordChangesOnlyBy ==
    [][(\A t \in TokenIds :
          Listed(market, t) =>
             LET sale == SaleOf(market, t) IN
             IF ~Listed(market', t)
             THEN /\ ev'.args.token_id = t
                  /\ \/ ev'.op = "remove_sale" /\ ev'.args.predecessor = sale.owner_id
                     \/ ev'.op = "offer" /\ ev'.args.predecessor # sale.owner_id
             ELSE \/ SaleOf(market', t) = sale
                  \/ /\ ev'.op = "update_price"
                     /\ ev'.args.token_id = t
                     /\ ev'.args.predecessor = sale.owner_id
                     /\ SaleOf(market', t) = [sale EXCEPT !.sale_conditions = ev'.args.price])
       /\ (ev'.op = "resolve_purchase" => market'.sales = market.sales)]_vars

\* C27 witness: the asset transfer of an accepted offer has failed, the
\* buyer has the amount again and the asset is no longer listed.
FailedPurchaseLeavesAssetUnlisted ==
    /\ PurchaseFailed
    /\ ev.args.price > 0
    /\ ~Listed(market, ev.args.token_id)

\* C28: storage_unregister of an account with a positive balance panics
\* without force, so nothing of it is written, in every contract state the
\* host takes a receipt in; with force it removes the record of the caller
\* and of nobody else and lowers total_supply by exactly the balance the
\* record held, so total_supply is the sum of the balances that remain.
\* Every unregistration that committed removed the caller's record only,
\* was forced if the record held tokens, and took the balance off
\* total_supply.
ForcedUnregisterBurnsBalance ==
    /\ ev.op = "storage_unregister" =>
          LET a == ev.args.predecessor IN
          /\ a \in DOMAIN ev.pre_accounts
          /\ (ev.pre_accounts[a] > 0 => ev.args.force)
          /\ accounts = Remove(ev.pre_accounts, a)
          /\ total_supply = ev.pre_supply - ev.pre_accounts[a]
          /\ total_supply = SumBalances(accounts)
          /\ ev.ret = TRUE
    /\ ev.op = "idle" =>
          \A p \in DOMAIN accounts :
              LET plain == storage_unregister(Now, p, FALSE, 1)
                  forced == storage_unregister(Now, p, TRUE, 1)
              IN  /\ (accounts[p] > 0 =>
                        /\ ~plain.ok
                        /\ plain.accounts = accounts
                        /\ plain.total_supply = total_supply)
                  /\ forced.ok
                  /\ forced.accounts = Remove(accounts, p)
                  /\ forced.total_supply = total_supply - accounts[p]
                  /\ forced.total_supply = SumBalances(forced.accounts)

\* C28 case: an account holding tokens was refused without force and has
\* unregistered with force, and an account that remains holds tokens.
ForcedUnregisterOfHolder ==
    /\ ev.op = "storage_unregister"
    /\ ev.args.force
    /\ ev.pre_accounts[ev.args.predecessor] > 0
    /\ storage_unregister(Start(ev.pre_accounts, ev.pre_supply),
                          ev.args.predecessor, FALSE, 1).panic
           = "Can't unregister the account with the positive balance without force"
    /\ \E b \in DOMAIN accounts : accounts[b] > 0
    /\ total_supply < ev.pre_supply

\* C29: new(owner, s) leaves the owner registered with the balance s,
\* total_supply s and no record of any other account, for every owner,
\* the account the constructor measures the storage with included, and
\* every s from 0 to the largest amount; the contract starts in that state.
InitialSupplyHeldByOwner ==
    ev.op = "new" =>
        /\ ev.ok
        /\ DOMAIN accounts = {ev.args.account_id}
        /\ accounts[ev.args.account_id] = ev.args.amount
        /\ total_supply = ev.args.amount
        /\ \A o \in Users \cup {TmpAccountId}, s \in Amounts :
              LET st == new(o, s) IN
              /\ st.ok
              /\ DOMAIN st.accounts = {o}
              /\ st.accounts[o] = s
              /\ st.total_supply = s
              /\ st.total_supply = SumBalances(st.accounts)

\* C29 case: the contract has been initialized with a supply of 0 and the
\* owner has a record holding 0.
InitializedWithZeroSupply ==
    /\ ev.op = "new"
    /\ ev.args.amount = 0
    /\ ev.args.account_id \in DOMAIN accounts
    /\ accounts[ev.args.account_id] = 0
    /\ new(ev.args.account_id, U128_MAX).accounts[ev.args.account_id] = U128_MAX

NoValueSaturates ==
    /\ (ev.op = "ft_on_transfer" /\ ev.ok =>
          Escrow(ev.args.signer_id)
             = ft_deposits_of(ev.pre_market.ft_deposits, ev.args.signer_id) + ev.args.amount)
    /\ (ev.op = "resolve_refund" /\ ev.ok /\ ev.args.result = Failed =>
          Escrow(ev.args.caller)
             = ft_deposits_of(ev.pre_market.ft_deposits, ev.args.caller) + ev.args.amount)
    /\ (ev.op \in {"ft_transfer", "ft_transfer_call"} /\ ev.ok =>
          accounts[ev.args.receiver_id]
             = ev.pre_accounts[ev.args.receiver_id] + ev.args.amount)
    /\ (ev.op = "idle" =>
          \A a \in DOMAIN accounts, n \in Amounts :
              accounts[a] + n > U128_MAX => ~internal_deposit(Now, a, n).ok)

RegisteredAgainKeepsBalance ==
    ev.op = "idle" =>
        \A a \in DOMAIN accounts :
            /\ ~internal_register_account(Now, a).ok
            /\ internal_register_account(Now, a).panic = "The account is already registered"
            /\ internal_register_account(Now, a).accounts[a] = accounts[a]
            /\ \A p \in Users, d \in StorageDeposits :
                  LET st == storage_deposit(Now, p, a, d) IN
                  /\ st.ok
                  /\ st.accounts = accounts
                  /\ st.total_supply = total_supply
                  /\ st.near_out = IF d > 0 THEN <<[to |-> p, amount |-> d]>> ELSE <<>>

\* C33 case: an account that holds tokens is registered again by another
\* account, which attaches more than the minimum and gets all of it back.
HolderRegisteredAgain ==
    /\ ev.op = "idle"
    /\ \E a \in DOMAIN accounts, p \in Users :
          /\ p # a
          /\ accounts[a] > 0
          /\ storage_deposit(Now, p, a, storage_balance_bounds_min + 1).near_out
                = <<[to |-> p, amount |-> storage_balance_bounds_min + 1]>>
          /\ storage_deposit(Now, p, a, storage_balance_bounds_min + 1).accounts[a] = accounts[a]

\* The NEAR a sequence of transfers pays out.
RECURSIVE NearPaid(_)
NearPaid(out) == IF out = <<>> THEN 0 ELSE Head(out).amount + NearPaid(Tail(out))

\* C34: in every contract state the host takes a receipt in, at every
\* price of a byte, storage_deposit for an account without a record panics
\* and registers nobody when less than bytes_for_longest_account_id times
\* the price is attached; otherwise it gives the account a record holding
\* 0, changes nothing else, and sends the caller exactly the attachment
\* less that minimum, so that exactly the minimum stays with the contract.
\* Every registration that committed kept exactly the minimum.
StorageDepositKeepsMinimum ==
    /\ (ev.op = "storage_deposit" =>
          /\ ev.args.deposit >= storage_balance_bounds_min
          /\ accounts = Insert(ev.pre_accounts, ev.args.account_id, 0)
          /\ total_supply = ev.pre_supply
          /\ ev.args.deposit - NearPaid(ev.near_out) = storage_balance_bounds_min
          /\ \A i \in 1..Len(ev.near_out) : ev.near_out[i].to = ev.args.predecessor)
    /\ (ev.op = "idle" =>
          \A a \in Users \ DOMAIN accounts, p \in Users, c \in ByteCosts, d \in Attachments :
              LET st == storage_deposit(AtByteCost(Now, c), p, a, d)
                  min == BytesForLongestAccountId * c
              IN  IF d < min
                  THEN /\ ~st.ok
                       /\ st.accounts = accounts
                       /\ st.near_out = <<>>
                  ELSE /\ st.ok
                       /\ st.accounts = Insert(accounts, a, 0)
                       /\ st.total_supply = total_supply
                       /\ st.near_out = IF d > min THEN <<[to |-> p, amount |-> d - min]>>
                                        ELSE <<>>
                       /\ d - NearPaid(st.near_out) = min
                       /\ st.ret = min)

\* C34 case: an account was registered by a caller who attached more than
\* the minimum and was sent the excess; one less than the minimum had been
\* refused.
RegisteredWithExcessRefunded ==
    /\ ev.op = "storage_deposit"
    /\ ev.args.deposit > storage_balance_bounds_min
    /\ ev.near_out = <<[to |-> ev.args.predecessor,
                        amount |-> ev.args.deposit - storage_balance_bounds_min]>>
    /\ accounts[ev.args.account_id] = 0
    /\ ~storage_deposit(Start(ev.pre_accounts, ev.pre_supply), ev.args.predecessor,
                        ev.args.account_id, storage_balance_bounds_min - 1).ok

\* C35: total_supply is the sum of all balances in every reachable state,
\* the states between the commit and the resolution of a chain included,
\* and in the state every receipt started from: whatever transfers,
\* chains, resolutions called by anyone and (forced) unregistrations have
\* run, in whatever order.
SupplyIsSumInEveryState ==
    /\ total_supply = SumBalances(accounts)
    /\ (ev.op \notin {"idle", "new"} => ev.pre_supply = SumBalances(ev.pre_accounts))

\* C35 case: while a chain is between its commit and its resolution, an
\* account holding tokens has unregistered with force.
BurnedWhileChainInFlight ==
    /\ saga # NoSaga
    /\ ev.op = "storage_unregister"
    /\ ev.args.force
    /\ ev.pre_accounts[ev.args.predecessor] > 0
    /\ total_supply = ev.pre_supply - ev.pre_accounts[ev.args.predecessor]

\* C36 as stated: the balance of an account is lower after a receipt than
\* before it, or its record is gone, only if the account called the
\* receipt itself (ft_transfer, ft_transfer_call, storage_unregister), or
\* if the receipt is the resolution of a chain of ft_transfer_call whose
\* receiver the account was, and then by at most the amount of the chain.
OnlyOwnReceiptsLowerBalance ==
    ev.op \notin {"idle", "new"} =>
        \A a \in DOMAIN ev.pre_accounts :
            (a \notin DOMAIN accounts \/ accounts[a] < ev.pre_accounts[a]) =>
                \/ /\ ev.op \in {"ft_transfer", "ft_transfer_call", "storage_unregister"}
                   /\ ev.args.predecessor = a
                \/ /\ HostResolved
                   /\ ev.args.receiver_id = a
                   /\ a \in DOMAIN accounts
                   /\ ev.pre_accounts[a] - accounts[a] <= ev.args.amount

\* C37 as stated: in every state of the ledger with the marketplace the
\* deposits of all buyers together are at most the balance the marketplace
\* holds on the ledger.
DepositsBackedByLedgerBalance ==
    SumOver(market.ft_deposits, DOMAIN market.ft_deposits)
        <= ft_balance_of(accounts, MarketId)

\* C38: an offer that was accepted found the sale listed and left it
\* unlisted, and with its asset transfer pending or resolved, in every
\* state in which the sale has not been listed again, an offer on it by
\* any account with any amount panics, with 'No sale' when one yoctoNEAR
\* is attached, so that nothing is debited; at most one purchase of the
\* asset is pending.
SecondOfferFindsNoSale ==
    /\ (ev.op = "offer" =>
          /\ Listed(ev.pre_market, ev.args.token_id)
          /\ ~Listed(market, ev.args.token_id)
          /\ promises.purchase.token_id = ev.args.token_id)
    /\ (ev.op = "idle" =>
          \A t \in TokenIds, p \in Users, n \in Amounts, d \in Deposits :
              ~Listed(market, t) =>
                  /\ ~offer(MarketNow, p, NftId, t, n, d).ok
                  /\ (d = 1 => offer(MarketNow, p, NftId, t, n, d).panic = "No sale"))

\* C38 case: the asset transfer of an accepted offer is pending, the sale
\* has not been listed again, and the buyer, whose deposit covers it, makes
\* a second offer, which finds no sale.
SecondOfferWhilePending ==
    /\ ev.op = "idle"
    /\ promises.purchase # NoPromise
    /\ ~Listed(market, promises.purchase.token_id)
    /\ Escrow(promises.purchase.buyer_id) >= 1
    /\ offer(MarketNow, promises.purchase.buyer_id, NftId, promises.purchase.token_id,
             1, 1).panic = "No sale"

\* C39 as stated: whatever the price of a byte was when an account
\* registered and whatever it is when the account unregisters, the NEAR
\* the unregistration pays out is at most the NEAR the registration kept
\* plus the one yoctoNEAR attached to storage_unregister.
UnregisterPaysAtMostRetained ==
    ev.op = "idle" =>
        \A a \in Users \ DOMAIN accounts, then \in ByteCosts, now \in ByteCosts,
           d \in Attachments :
            LET registered == storage_deposit(AtByteCost(Now, then), a, a, d)
                retained == d - NearPaid(registered.near_out)
                unregistered ==
                    storage_unregister(
                        AtByteCost(Start(registered.accounts, registered.total_supply), now),
                        a, FALSE, 1)
            IN  registered.ok /\ unregistered.ok =>
                    NearPaid(unregistered.near_out) <= retained + 1

\* C40: an offer made by the seller of the sale itself is rejected and
\* changes nothing, whatever the amount and whatever the seller holds in
\* deposit: in every state with a sale listed, the offer of its seller
\* panics for every amount and attachment (with one yoctoNEAR attached, on
\* the check of the seller), the sale stays listed, no deposit is lowered
\* and no promise is created; and no offer that took effect was made by
\* the seller of the sale it bought.
OwnSaleOfferRejected ==
    /\ ev.op = "offer" =>
          /\ Listed(ev.pre_market, ev.args.token_id)
          /\ ev.args.buyer_id # SaleOf(ev.pre_market, ev.args.token_id).owner_id
    /\ ev.op = "idle" =>
          \A t \in TokenIds, n \in Amounts, d \in Deposits :
             Listed(market, t) =>
                LET st == offer(MarketNow, SaleOf(market, t).owner_id, NftId, t, n, d) IN
                /\ ~st.ok
                /\ (d = 1 => st.panic = "Cannot bid on your own sale.")
                /\ Stored(st) = market
                /\ st.promises = <<>>

\* C40 witness: a seller whose deposit covers the positive price of its
\* own sale offers that price with one yoctoNEAR attached, and the offer
\* fails on the check of the seller alone.
SellerOffersOnOwnSale ==
    /\ ev.op = "idle"
    /\ \E t \in TokenIds :
          /\ Listed(market, t)
          /\ SaleOf(market, t).sale_conditions > 0
          /\ SaleOf(market, t).owner_id \in DOMAIN market.ft_deposits
          /\ market.ft_deposits[SaleOf(market, t).owner_id]
                >= SaleOf(market, t).sale_conditions
          /\ offer(MarketNow, SaleOf(market, t).owner_id, NftId, t,
                   SaleOf(market, t).sale_conditions, 1).panic
               = "Cannot bid on your own sale."

====
